---- MODULE Spec2Model ----
(***************************************************************************)
(* Supplier synchronisation engine of sheaker2.0.                          *)
(*                                                                         *)
(* Spec models providers/services/sync.py: concurrent invocations of       *)
(* sync_provider_products over one catalog database (Product, Variant,     *)
(* SupplierProduct, ProviderSyncLog) and one shared cache (the per-        *)
(* supplier lock with its expiry).  Time is in seconds.                    *)
(*                                                                         *)
(* SpecAuth, SpecHttp and SpecList model providers/adapters/cj.py: the     *)
(* token life cycle (_ensure_token, _login, _refresh and the credentials   *)
(* saved by sync.py), the daily request budget with the retries of         *)
(* _http_get, and list_products.  SpecImport models                        *)
(* catalog/importers/manual.py: preview and commit of an uploaded file;    *)
(* SpecMedia, SpecGroup, SpecBulk and SpecPage run the same operations on  *)
(* rows with media urls, on rows grouped by product_key, on large files    *)
(* and page by page.  SpecUpload puts the commit behind                    *)
(* dashboard/views_uploads.py: product_upload_commit.  SpecBoth lets       *)
(* manual commits and sync runs write the same Product and Variant tables. *)
(***************************************************************************)
EXTENDS Integers, Sequences, FiniteSets, TLC

\* ---------------------------------------------------------------- bounds
MaxYield == 2      \* items the supplier's API yields, over all runs
MaxTicks == 2      \* advances of the wall clock

\* ------------------------------------------------------------- constants
LockTimeout == 60 * 15
HashWindow == 24 * 3600
TickStep == (2 * LockTimeout) \div 3
Null == -1
None == "None"

\* The invocations of sync_provider_products, in order of their call.
Runs == {1, 2}

\* ------------------------------------------------------------ the inputs
\* ProviderAccount rows.  "CJ" and "cj" are two accounts whose codes
\* lower-case to the same adapter and the same lock key.
ProviderAccounts ==
    { [code |-> "cj", is_active |-> TRUE],
      [code |-> "CJ", is_active |-> TRUE],
      [code |-> "ali", is_active |-> TRUE],
      [code |-> "old", is_active |-> FALSE] }

ProviderCodes == {"cj", "CJ", "ali"}

Limits == {0, 1}

\* Raw supplier payloads.  variants is the list of variantSku values;
\* defect abstracts payload content that makes a statement raise:
\*   "map"  a variants entry that is not a mapping (cj.py:486 raises),
\*   "pid"  a pid longer than SupplierProduct.external_id allows, so the
\*          link insert raises after the Product and Variant inserts.
RawItems ==
    << [pid |-> "p1", productNameEn |-> "A", variants |-> <<"s1">>, defect |-> "none"],
       [pid |-> "p1", productNameEn |-> "", variants |-> <<" ", "s1 ", "s2">>, defect |-> "none"],
       [pid |-> "p2", productNameEn |-> "A", variants |-> <<"s2">>, defect |-> "pid"],
       [pid |-> "p3", productNameEn |-> "B", variants |-> <<"s3">>, defect |-> "map"] >>

RawIds == 1..Len(RawItems)

AdapterErrors == {"CJAuthError", "RateLimitedError"}

\* ------------------------------------------------------ string helpers
Lower(s) ==
    CASE s = "CJ" -> "cj"
      [] OTHER -> s

Strip(s) ==
    CASE s = " " -> ""
      [] s = "s1 " -> "s1"
      [] OTHER -> s

\* ---------------------------------------------------------- the cache
\* cache maps a present key to its expiry time.
CacheLive(c, key, t) == key \in DOMAIN c /\ c[key] > t

\* cache.add that overwrites a live key.
CacheAddOkIgnoringLock(c, key, t) == TRUE

CacheAddOk(c, key, t) == ~CacheLive(c, key, t)

CacheAdd(c, key, t, timeout) ==
    IF CacheAddOk(c, key, t)
    THEN [k \in (DOMAIN c) \cup {key} |-> IF k = key THEN t + timeout ELSE c[k]]
    ELSE c

CacheDelete(c, key) == [k \in (DOMAIN c) \ {key} |-> c[k]]

LockKey(provider_code) == "providers:sync_lock:" \o Lower(provider_code)

\* ---------------------------------------------------------- the counts
InitialCounts ==
    [k \in {"raw_seen", "products_upserted", "variants_upserted",
            "variants_skipped", "links_upserted", "errors"} |-> 0]

CountsGet(c, k) == IF k \in DOMAIN c THEN c[k] ELSE 0

CountsSet(c, k, v) == [x \in (DOMAIN c) \cup {k} |-> IF x = k THEN v ELSE c[x]]

\* ------------------------------------------------------------ the adapter
\* CJAdapter.map_to_internal: the external id, the title with its fallback,
\* one variant per raw sub-record whose stripped SKU is not blank.
RECURSIVE MapVariants(_)
MapVariants(vs) ==
    IF vs = << >> THEN << >>
    ELSE LET sku == Strip(Head(vs))
         IN  IF sku = "" THEN MapVariants(Tail(vs))
             ELSE <<[sku |-> sku]>> \o MapVariants(Tail(vs))

MapToInternal(rawId) ==
    LET r == RawItems[rawId]
    IN  IF r.defect = "map"
        THEN [exc |-> "AttributeError"]
        ELSE [exc |-> None,
              product |-> [title |-> IF r.productNameEn = "" THEN "Untitled"
                                     ELSE r.productNameEn],
              variants |-> MapVariants(r.variants),
              external |-> [external_id |-> r.pid],
              raw |-> rawId]

\* ------------------------------------------------------------- the ORM
HasField(model, name) ==
    name \in (CASE model = "SupplierProduct" ->
                     {"id", "provider_account", "variant", "external_id", "raw",
                      "is_active", "last_synced_at"}
                [] OTHER -> {})

HashRaw(rawId) == <<"sha1", RawItems[rawId].pid, RawItems[rawId].productNameEn,
                    RawItems[rawId].variants>>

ProductMatches(tbl, title) == {i \in DOMAIN tbl : tbl[i].title = title}

\* Product.objects.get_or_create(title=...)
ProductGetOrCreate(tbl, title) ==
    LET m == ProductMatches(tbl, title)
    IN  IF Cardinality(m) > 1
        THEN [exc |-> "MultipleObjectsReturned", tbl |-> tbl, pk |-> 0]
        ELSE IF m = {}
        THEN [exc |-> None, tbl |-> Append(tbl, [title |-> title]), pk |-> Len(tbl) + 1]
        ELSE [exc |-> None, tbl |-> tbl, pk |-> CHOOSE i \in m : TRUE]

VariantMatches(tbl, sku) == {i \in DOMAIN tbl : tbl[i].sku = sku}

\* A variant upsert that rewrites the defaults of the row it finds.
VariantUpdateOrCreate(tbl, sku, product_pk) ==
    LET m == VariantMatches(tbl, sku)
    IN  IF m = {}
        THEN [tbl |-> Append(tbl, [sku |-> sku, product |-> product_pk]),
              pk |-> Len(tbl) + 1]
        ELSE LET i == CHOOSE j \in m : TRUE
             IN  [tbl |-> [tbl EXCEPT ![i].product = product_pk], pk |-> i]

\* Variant.objects.get_or_create(sku=..., defaults={product: ...}); product
\* stands for the whole defaults dictionary (product, attributes,
\* price_base, currency, weight, dims, is_active), which is used only when
\* the row is inserted.
VariantGetOrCreate(tbl, sku, product_pk) ==
    LET m == VariantMatches(tbl, sku)
    IN  IF m = {}
        THEN [tbl |-> Append(tbl, [sku |-> sku, product |-> product_pk]),
              pk |-> Len(tbl) + 1]
        ELSE [tbl |-> tbl, pk |-> CHOOSE i \in m : TRUE]

LinkMatches(tbl, account, external_id) ==
    {i \in DOMAIN tbl : tbl[i].provider_account = account
                        /\ tbl[i].external_id = external_id}

\* A link upsert that inserts without looking for the existing row.
LinkAlwaysCreate(tbl, account, external_id, variant_pk, rawId, t) ==
    IF RawItems[rawId].defect = "pid"
    THEN [exc |-> "DataError", tbl |-> tbl]
    ELSE [exc |-> None,
          tbl |-> Append(tbl, [provider_account |-> account,
                               external_id |-> external_id,
                               variant |-> variant_pk, raw |-> rawId,
                               is_active |-> TRUE, last_synced_at |-> t])]

\* SupplierProduct.objects.update_or_create(provider_account, external_id,
\* defaults={variant, raw, is_active, last_synced_at})
LinkUpdateOrCreate(tbl, account, external_id, variant_pk, rawId, t) ==
    LET m == LinkMatches(tbl, account, external_id)
        row == [provider_account |-> account, external_id |-> external_id,
                variant |-> variant_pk, raw |-> rawId, is_active |-> TRUE,
                last_synced_at |-> t]
    IN  IF RawItems[rawId].defect = "pid"
        THEN [exc |-> "DataError", tbl |-> tbl]
        ELSE IF m = {}
        THEN [exc |-> None, tbl |-> Append(tbl, row)]
        ELSE LET i == CHOOSE j \in m : TRUE
             IN  [exc |-> None, tbl |-> [tbl EXCEPT ![i] = row]]

\* ------------------------------------------------- _upsert_product_tree
\* st carries the tables, the counts and the pending exception through the
\* loop over mapped["variants"].
RECURSIVE UpsertVariants(_, _, _, _, _, _, _)
UpsertVariants(vs, st, mapped, account, product_pk, dry_run, t) ==
    IF vs = << >> \/ st.exc # None THEN st
    ELSE LET sku == Strip(Head(vs).sku)
         IN  IF sku = ""
             THEN UpsertVariants(Tail(vs),
                      [st EXCEPT !.counts = CountsSet(@, "variants_skipped",
                                                      @["variants_skipped"] + 1)],
                      mapped, account, product_pk, dry_run, t)
             ELSE IF dry_run
             THEN UpsertVariants(Tail(vs),
                      [st EXCEPT !.counts =
                          CountsSet(CountsSet(@, "variants_dry_run",
                                              CountsGet(@, "variants_dry_run") + 1),
                                    "links_dry_run", CountsGet(@, "links_dry_run") + 1)],
                      mapped, account, product_pk, dry_run, t)
             ELSE LET v == VariantGetOrCreate(st.variants, sku, product_pk)
                      c1 == CountsSet(st.counts, "variants_upserted",
                                      st.counts["variants_upserted"] + 1)
                      l == LinkUpdateOrCreate(st.links, account,
                                              mapped.external.external_id, v.pk,
                                              mapped.raw, t)
                  IN  IF l.exc # None
                      THEN [st EXCEPT !.variants = v.tbl, !.counts = c1, !.exc = l.exc]
                      ELSE UpsertVariants(Tail(vs),
                               [st EXCEPT !.variants = v.tbl, !.links = l.tbl,
                                          !.counts = CountsSet(c1, "links_upserted",
                                                               c1["links_upserted"] + 1)],
                               mapped, account, product_pk, dry_run, t)

\* The body of _upsert_product_tree, before the transaction ends.
UpsertBody(mapped, account, cnt, dry_run, db, t) ==
    LET st0 == [products |-> db.products, variants |-> db.variants,
                links |-> db.links, counts |-> cnt, exc |-> None]
    IN  IF dry_run
        THEN IF "products_dry_run" \in DOMAIN cnt
             THEN UpsertVariants(mapped.variants,
                      [st0 EXCEPT !.counts = CountsSet(@, "products_dry_run",
                                                       @["products_dry_run"] + 1)],
                      mapped, account, 0, dry_run, t)
             ELSE [st0 EXCEPT !.exc = "KeyError"]
        ELSE LET p == ProductGetOrCreate(db.products, mapped.product.title)
             IN  IF p.exc # None
                 THEN [st0 EXCEPT !.exc = p.exc]
                 ELSE UpsertVariants(mapped.variants,
                          [st0 EXCEPT !.products = p.tbl,
                                      !.counts = CountsSet(@, "products_upserted",
                                                           @["products_upserted"] + 1)],
                          mapped, account, p.pk, dry_run, t)

\* An upsert without its transaction: the writes made before the exception stay.
AtomicNoRollback(st, db) == st

\* @transaction.atomic: an exception discards the tables' changes; the
\* counts dictionary is the caller's object and keeps its increments.
Atomic(st, db) ==
    IF st.exc # None
    THEN [st EXCEPT !.products = db.products, !.variants = db.variants,
                    !.links = db.links]
    ELSE st

\* An upsert that does not look at dry_run.
UpsertProductTreeIgnoringDryRun(mapped, account, cnt, dry_run, db, t) ==
    LET st == UpsertBody(mapped, account, cnt, FALSE, db, t)
    IN  IF st.exc # None
        THEN [st EXCEPT !.products = db.products, !.variants = db.variants,
                        !.links = db.links]
        ELSE st

UpsertProductTree(mapped, account, cnt, dry_run, db, t) ==
    Atomic(UpsertBody(mapped, account, cnt, dry_run, db, t), db)

VARIABLES clock, ticks, cache, pc, args, counts, first_error, raised, raw,
          yielded, logs, products, variants, links, synced

\* The CJ adapter object, the account's credentials_json, the trace of
\* the last _ensure_token call and the tokens the supplier has issued.
VARIABLES adapter, creds, auth, issued

\* The UTC day, the request counters of the shared cache (one per day for
\* the account), the adapter's configuration, the _http_get / _http_post
\* call of each adapter process, the requests issued per day and the
\* number of calls begun.
VARIABLES today, reqcount, conf, http, sentOn, calls

\* The frame of the list_products generator, the items it has yielded and
\* the chunks of identifiers it has finished.
VARIABLES lp, out, chunks

\* The catalog tables the manual importer writes (Product, Variant,
\* Inventory), the answer of the last parse_file_to_preview and the
\* running commit_import_payload.
VARIABLES shop, preview, job, req

syncVars == <<clock, ticks, cache, pc, args, counts, first_error, raised, raw,
              yielded, logs, products, variants, links, synced>>

authVars == <<adapter, creds, auth, issued>>

httpVars == <<today, reqcount, conf, http, sentOn, calls>>

listVars == <<lp, out, chunks>>

importVars == <<shop, preview, job, req>>

vars == <<syncVars, authVars, httpVars, listVars, importVars>>

exceptSync == <<authVars, httpVars, listVars, importVars>>

exceptAuth == <<syncVars, httpVars, listVars, importVars>>

exceptHttp == <<syncVars, authVars, listVars, importVars>>

exceptList == <<syncVars, httpVars, importVars>>

exceptImport == <<syncVars, authVars, httpVars, listVars>>

catalog == <<products, variants, links>>

NoArgs == [provider_code |-> None, dry_run |-> FALSE, limit |-> 0]

SyncInit ==
    /\ clock = 0
    /\ ticks = 0
    /\ cache = << >>
    /\ pc = [r \in Runs |-> "idle"]
    /\ args = [r \in Runs |-> NoArgs]
    /\ counts = [r \in Runs |-> InitialCounts]
    /\ first_error = [r \in Runs |-> None]
    /\ raised = [r \in Runs |-> None]
    /\ raw = [r \in Runs |-> 0]
    /\ yielded = 0
    /\ logs = << >>
    /\ products = << >>
    /\ variants = << >>
    /\ links = << >>
    /\ synced = {}

\* No adapter object exists and the account holds no token.
NoAdapter ==
    [_token |-> Null, _refresh_token |-> Null,
     _token_expiry |-> Null, _refresh_expiry |-> Null]

NoCreds ==
    [has_login |-> FALSE, access_token |-> Null, refresh_token |-> Null,
     access_token_expires |-> << >>, refresh_token_expires |-> << >>]

NoCall ==
    [reused |-> FALSE, refresh |-> "none", login |-> "none",
     result |-> "none", saved |-> 0, at |-> 0]

AuthAtRest ==
    /\ adapter = NoAdapter
    /\ creds = NoCreds
    /\ auth = NoCall
    /\ issued = 0

\* The adapter processes that share the cache, and the days they run over.
MaxDays == 1       \* midnights that pass
MaxCalls == 2      \* _http_get / _http_post calls begun, over all processes

Procs == {1, 2}

Days == 0 .. (MaxDays + 1)

DefaultRetries == 3

NoHttp ==
    [pc |-> "idle", attempt |-> 0, sent |-> 0, slept |-> 0, err |-> None,
     last |-> None, _req_date |-> 0, _req_count |-> 0]

HttpAtRest ==
    /\ today = 0
    /\ reqcount = [d \in Days |-> 0]
    /\ conf = [max_retries |-> DefaultRetries, daily_cap |-> 1]
    /\ http = [p \in Procs |-> NoHttp]
    /\ sentOn = [d \in Days |-> 0]
    /\ calls = 0

NoList ==
    [pc |-> "idle", fetch_mode |-> None, max_pages |-> 0, bulk_size |-> 0,
     pages_done |-> 0, rows_seen |-> 0, pids |-> << >>, chunk |-> << >>,
     idx |-> 0,
     got_any |-> FALSE, tried |-> << >>, empties |-> 0,
     rl |-> FALSE, cap_hit |-> FALSE, after_rl |-> FALSE, err |-> None,
     page_num |-> 0, asked |-> << >>, token_checks |-> 0, ended |-> FALSE]

ListAtRest ==
    /\ lp = NoList
    /\ out = << >>
    /\ chunks = << >>

Skus == {"A", "B"}

ProductKeys == {"k"}

Urls == {"u", "v"}

NoResults ==
    [products_created |-> 0, products_updated |-> 0, variants_created |-> 0,
     variants_updated |-> 0, media_created |-> 0, inventory_set |-> 0,
     inventory_incremented |-> 0, errors |-> << >>]

NoStats == [total |-> 0, to_create |-> 0, to_update |-> 0, to_skip |-> 0, errors |-> 0]

\* token stands for the uploaded file it names; asked holds the page and
\* per_page arguments of the call.
NoPreview ==
    [rows |-> << >>, stats |-> NoStats, upsert |-> FALSE, token |-> << >>,
     page |-> 0, per_page |-> 0, total_pages |-> 0,
     asked |-> [page |-> 0, per_page |-> 0]]

NoLast == [idx |-> 0, existed |-> FALSE, prev |-> Null]

\* The Product and Variant rows a commit found at its start, kept when
\* the commit repeats the one before it.
NoCounts == [products |-> Null, variant_rows |-> Null]

NoJob ==
    [pc |-> "idle", idx |-> 0, dry_run |-> FALSE,
     product_cache |-> [k \in ProductKeys |-> 0],
     results |-> NoResults, applied |-> {}, made |-> {}, last |-> NoLast,
     count |-> 0, again |-> NoCounts]

\* An empty catalog: no Product row, no Variant row (product 0 for every
\* SKU), no Inventory row, no Media row.
EmptyShop ==
    [products |-> 0, variant_rows |-> 0, variants |-> [x \in Skus |-> 0],
     inventory |-> [x \in Skus |-> Null],
     media |-> [x \in Skus |-> << >>]]

NoUser == [is_authenticated |-> FALSE, is_active |-> FALSE,
           is_superuser |-> FALSE, groups |-> {}]

\* The last request to product_upload_commit: who sent it, its method,
\* its token and dry_run fields, the status of the answer and whether
\* commit_import_payload ran for it.
NoReq ==
    [user |-> NoUser, method |-> "", token |-> "", post_dry_run |-> "",
     status |-> 0, dry_run |-> FALSE, ran |-> FALSE]

ImportAtRest ==
    /\ shop = EmptyShop
    /\ preview = NoPreview
    /\ job = NoJob
    /\ req = NoReq

Init ==
    /\ SyncInit
    /\ AuthAtRest
    /\ HttpAtRest
    /\ ListAtRest
    /\ ImportAtRest

\* ------------------------------------------------ sync_provider_products
ActiveAccount(provider_code) ==
    {a \in ProviderAccounts : a.code = provider_code /\ a.is_active}

AdapterRegistered(code) == Lower(code) = "cj"

NewLogRow(r, code) ==
    [run |-> r, provider_account |-> code,
     finished_at |-> Null, status |-> "success",
     counts |-> << >>, first_error |-> ""]

\* The early exit taken when cache.add finds the lock held.
LockFailedRow(row, cnt, t) ==
    [row EXCEPT !.status = "error",
                !.first_error = "Concurrency lock: another sync is running.",
                !.finished_at = t,
                !.counts = cnt]

\* A finally block that ignores the error count.
FinalStatusAlwaysSuccess(cnt) == "success"

FinalStatus(cnt) == IF cnt["errors"] = 0 THEN "success" ELSE "partial"

\* The finally block's writes to the log row.
FinalRow(row, cnt, fe, t) ==
    [row EXCEPT !.first_error = IF fe # None /\ fe # "" THEN fe ELSE @,
                !.status = FinalStatus(cnt),
                !.finished_at = t,
                !.counts = cnt]

\* Lines 184-233: account and adapter lookup, log row, cache.add of the lock.
\* A call that raises leaves no frame: its locals stay at their initial value.
Start(r, provider_code, dry_run, limit) ==
    /\ pc[r] = "idle"
    /\ \A q \in Runs : q < r => pc[q] # "idle"
    /\ IF ActiveAccount(provider_code) = {}
       THEN /\ pc' = [pc EXCEPT ![r] = "raised"]
            /\ raised' = [raised EXCEPT ![r] = "DoesNotExist"]
            /\ UNCHANGED <<cache, logs, args>>
       ELSE IF ~AdapterRegistered(provider_code)
       THEN /\ pc' = [pc EXCEPT ![r] = "raised"]
            /\ raised' = [raised EXCEPT ![r] = "ValueError"]
            /\ UNCHANGED <<cache, logs, args>>
       ELSE LET row == NewLogRow(r, provider_code)
                key == LockKey(provider_code)
            IN  IF ~CacheAddOk(cache, key, clock)
                THEN /\ logs' = Append(logs, LockFailedRow(row, counts[r], clock))
                     /\ pc' = [pc EXCEPT ![r] = "raised"]
                     /\ raised' = [raised EXCEPT ![r] = "RuntimeError"]
                     /\ UNCHANGED <<cache, args>>
                ELSE /\ logs' = Append(logs, row)
                     /\ cache' = CacheAdd(cache, key, clock, LockTimeout)
                     /\ pc' = [pc EXCEPT ![r] = "iterating"]
                     /\ args' = [args EXCEPT ![r] = [provider_code |-> provider_code,
                                                     dry_run |-> dry_run,
                                                     limit |-> limit]]
                     /\ UNCHANGED raised
    /\ UNCHANGED exceptSync
    /\ UNCHANGED <<clock, ticks, counts, first_error, raw, yielded,
                   products, variants, links, synced>>

\* Lines 262-267: the stored hash equals this payload's and the link was
\* synced within the last 24 hours.
SkipUnchanged(tbl, account, external_id, this_hash, t) ==
    LET m == LinkMatches(tbl, account, external_id)
    IN  /\ m # {}
        /\ LET sp == tbl[CHOOSE i \in m : TRUE]
           IN  /\ sp.raw_hash = this_hash
               /\ sp.last_synced_at # Null
               /\ sp.last_synced_at > t - HashWindow

\* Lines 278-280: filter(...).update(raw_hash=this_hash)
LinkUpdateHash(tbl, account, external_id, this_hash) ==
    [i \in DOMAIN tbl |->
        IF i \in LinkMatches(tbl, account, external_id)
        THEN [f \in (DOMAIN tbl[i]) \cup {"raw_hash"} |->
                 IF f = "raw_hash" THEN this_hash ELSE tbl[i][f]]
        ELSE tbl[i]]

\* Lines 246-291: the body of the loop for one raw item, after raw_seen
\* was incremented.  Returns the tables, the counts and the exception the
\* except clause catches.
ItemBody(rawId, account, cnt, dry_run, db, t) ==
    LET mapped == MapToInternal(rawId)
        st0 == [products |-> db.products, variants |-> db.variants,
                links |-> db.links, counts |-> cnt, exc |-> None]
    IN  IF mapped.exc # None
        THEN [st0 EXCEPT !.exc = mapped.exc]
        ELSE LET external_id == mapped.external.external_id
                 do_hash == HasField("SupplierProduct", "raw_hash")
                 this_hash == IF do_hash THEN HashRaw(mapped.raw) ELSE <<>>
             IN  IF do_hash /\ SkipUnchanged(db.links, account, external_id,
                                             this_hash, t)
                 THEN [st0 EXCEPT !.counts =
                          CountsSet(@, "skipped_unchanged",
                                    CountsGet(@, "skipped_unchanged") + 1)]
                 ELSE LET st == UpsertProductTree(mapped, account, cnt, dry_run, db, t)
                      IN  IF st.exc = None /\ ~dry_run /\ do_hash
                          THEN [st EXCEPT !.links =
                                   LinkUpdateHash(@, account, external_id, this_hash)]
                          ELSE st

\* Lines 282-285: the except clause.
ItemResult(st, fe) ==
    IF st.exc = None
    THEN [counts |-> st.counts, first_error |-> fe]
    ELSE [counts |-> CountsSet(st.counts, "errors", st.counts["errors"] + 1),
          first_error |-> IF fe = None THEN st.exc ELSE fe]

LimitReached(r) == args[r].limit # 0 /\ counts[r]["raw_seen"] >= args[r].limit

\* One pass of the loop: the adapter yields rawId and the item is mapped,
\* upserted in its transaction and counted.
ProcessItem(r, rawId) ==
    /\ pc[r] = "iterating"
    /\ yielded < MaxYield
    /\ ~LimitReached(r)
    /\ LET cnt1 == CountsSet(counts[r], "raw_seen", counts[r]["raw_seen"] + 1)
           db == [products |-> products, variants |-> variants, links |-> links]
           st == ItemBody(rawId, args[r].provider_code, cnt1, args[r].dry_run,
                          db, clock)
           res == ItemResult(st, first_error[r])
       IN  /\ products' = st.products
           /\ variants' = st.variants
           /\ links' = st.links
           /\ counts' = [counts EXCEPT ![r] = res.counts]
           /\ first_error' = [first_error EXCEPT ![r] = res.first_error]
           /\ synced' = IF st.exc = None /\ ~args[r].dry_run
                        THEN synced \cup {<<args[r].provider_code, rawId>>}
                        ELSE synced
    /\ raw' = [raw EXCEPT ![r] = rawId]
    /\ yielded' = yielded + 1
    /\ UNCHANGED <<clock, ticks, cache, pc, args, raised, logs>>
    /\ UNCHANGED exceptSync

\* The ProviderSyncLog row the run created (run is the model's tag for the
\* row the local log_row refers to).
LogRowOf(r) == CHOOSE i \in DOMAIN logs : logs[i].run = r

\* The finally block: release the lock, finalize the log row.  The frame
\* ends with it, and the locals return to their initial value.
Finally(r) ==
    /\ cache' = CacheDelete(cache, LockKey(args[r].provider_code))
    /\ logs' = [logs EXCEPT ![LogRowOf(r)] =
                   FinalRow(@, counts[r], first_error[r], clock)]
    /\ args' = [args EXCEPT ![r] = NoArgs]
    /\ counts' = [counts EXCEPT ![r] = InitialCounts]
    /\ first_error' = [first_error EXCEPT ![r] = None]
    /\ raw' = [raw EXCEPT ![r] = 0]

\* The adapter is exhausted, or the limit check breaks out of the loop;
\* the function returns counts.
FinishOk(r) ==
    /\ pc[r] = "iterating"
    /\ Finally(r)
    /\ pc' = [pc EXCEPT ![r] = "returned"]
    /\ UNCHANGED <<clock, ticks, raised, yielded, products, variants, links, synced>>
    /\ UNCHANGED exceptSync

\* The adapter raises while fetching: authentication on the first request
\* (cj.py:352), a rate limit or an HTTP error on any request.
FinishRaise(r, e) ==
    /\ pc[r] = "iterating"
    /\ e = "CJAuthError" => counts[r]["raw_seen"] = 0
    /\ Finally(r)
    /\ pc' = [pc EXCEPT ![r] = "raised"]
    /\ raised' = [raised EXCEPT ![r] = e]
    /\ UNCHANGED <<clock, ticks, yielded, products, variants, links, synced>>
    /\ UNCHANGED exceptSync

Tick ==
    /\ ticks < MaxTicks
    /\ ticks' = ticks + 1
    /\ clock' = clock + TickStep
    /\ UNCHANGED <<cache, pc, args, counts, first_error, raised, raw, yielded,
                   logs, products, variants, links, synced>>
    /\ UNCHANGED exceptSync

Next ==
    \/ \E r \in Runs, c \in ProviderCodes, d \in BOOLEAN, l \in Limits : Start(r, c, d, l)
    \/ \E r \in Runs, i \in RawIds : ProcessItem(r, i)
    \/ \E r \in Runs : FinishOk(r)
    \/ \E r \in Runs, e \in AdapterErrors : FinishRaise(r, e)
    \/ Tick

Spec == Init /\ [][Next]_vars

\* ------------------------------------------------------------ the claims
RunKey(r) == LockKey(args[r].provider_code)

\* The step is run r's call reaching cache.add (its log row was created).
ReachesLock(r) == pc[r] = "idle" /\ pc'[r] # "idle" /\ Len(logs') = Len(logs) + 1

NewRow == logs'[Len(logs')]

Finishes(r) == pc[r] = "iterating" /\ pc'[r] \in {"returned", "raised"}

HeldByOther(r, key) ==
    \E q \in Runs \ {r} : pc[q] = "iterating" /\ RunKey(q) = key
                          /\ CacheLive(cache, key, clock)

\* C1: while a run holds the lock of a provider code, a second call for
\* that code fails in the same step with the "sync already running" error,
\* leaves its own log row with status "error" and leaves the cache as it
\* was; the end of a run, by return or by exception, leaves the lock free,
\* and a call that finds the lock free acquires it and iterates.
C1_LockContention ==
    [][\A r \in Runs :
         /\ ReachesLock(r) =>
              LET key == LockKey(NewRow.provider_account)
              IN  /\ HeldByOther(r, key) =>
                       /\ pc'[r] = "raised"
                       /\ raised'[r] = "RuntimeError"
                       /\ NewRow.run = r /\ NewRow.status = "error"
                       /\ cache' = cache
                  /\ ~CacheLive(cache, key, clock) =>
                       /\ pc'[r] = "iterating"
                       /\ CacheLive(cache', key, clock')
         /\ Finishes(r) => ~CacheLive(cache', RunKey(r), clock')
      ]_vars

C1_Witness ==
    \E r, q \in Runs :
        /\ pc[q] = "iterating" /\ CacheLive(cache, RunKey(q), clock)
        /\ pc[r] = "raised" /\ raised[r] = "RuntimeError"
        /\ clock > 0

\* C2: at most one run per lock key is between acquiring and releasing the
\* lock.
C2_MutualExclusion ==
    \A r, q \in Runs :
        (r # q /\ pc[r] = "iterating" /\ pc[q] = "iterating") => RunKey(r) # RunKey(q)

RowsOf(r) == {i \in DOMAIN logs : logs[i].run = r}

Ended(r) == pc[r] \in {"returned", "raised"}

\* C3: when a run that created a log row has returned or raised, the row
\* has finished_at set and its status is not "success" if its counts hold
\* errors > 0.
C3_LogFinalized ==
    \A r \in Runs : \A i \in RowsOf(r) :
        Ended(r) =>
            /\ logs[i].finished_at # Null
            /\ (CountsGet(logs[i].counts, "errors") > 0 => logs[i].status # "success")

C3_Witness ==
    \E r \in Runs : \E i \in RowsOf(r) :
        /\ pc[r] = "returned"
        /\ CountsGet(logs[i].counts, "errors") > 0
        /\ logs[i].status = "partial"
        /\ logs[i].finished_at > 0

\* C4: a run that raised before any item was processed has its row
\* finalized with status "error"; status "success" belongs only to runs
\* that returned with zero item errors.
C4_EarlyFailureIsError ==
    \A r \in Runs : \A i \in RowsOf(r) :
        Ended(r) =>
            /\ (pc[r] = "raised" /\ CountsGet(logs[i].counts, "raw_seen") = 0)
                   => (logs[i].status = "error" /\ logs[i].finished_at # Null)
            /\ logs[i].status = "success"
                   => (pc[r] = "returned" /\ CountsGet(logs[i].counts, "errors") = 0)

\* C5: every invocation that has ended left exactly one ProviderSyncLog row.
C5_OneLogRowPerInvocation ==
    \A r \in Runs : Ended(r) => Cardinality(RowsOf(r)) = 1

\* The step is one pass of run r's loop over the item raw'[r].
ItemStep(r) ==
    /\ pc[r] = "iterating"
    /\ counts'[r]["raw_seen"] = counts[r]["raw_seen"] + 1

Seen(r) == CountsSet(counts[r], "raw_seen", counts[r]["raw_seen"] + 1)

Tables == [products |-> products, variants |-> variants, links |-> links]

\* What the loop body does with run r's next item under the given dry_run.
BodyOf(r, dry_run) ==
    ItemBody(raw'[r], args[r].provider_code, Seen(r), dry_run, Tables, clock)

\* C6: when the mapping or the upsert of an item raises, errors grows by
\* exactly one, the catalog is as it was before the item (its writes are
\* rolled back, earlier items' writes stay), and the run keeps iterating
\* without an exception of its own.
C6_ItemFailureIsolated ==
    [][\A r \in Runs :
         (ItemStep(r) /\ BodyOf(r, args[r].dry_run).exc # None) =>
             /\ counts'[r]["errors"] = counts[r]["errors"] + 1
             /\ catalog' = catalog
             /\ pc'[r] = "iterating"
             /\ raised'[r] = None
      ]_vars

C6_Witness ==
    \E r \in Runs :
        /\ pc[r] = "iterating" /\ ~args[r].dry_run
        /\ counts[r]["raw_seen"] = 2 /\ counts[r]["errors"] = 1
        /\ raw[r] = 3
        /\ counts[r]["variants_upserted"] = 2
        /\ Len(products) = 1 /\ Len(variants) = 1 /\ Len(links) = 1

LinkOf(account, external_id) ==
    {i \in DOMAIN links : links[i].provider_account = account
                          /\ links[i].external_id = external_id}

\* C7: a non-dry pass over an item whose link holds the same raw payload,
\* synced less than 24 hours ago, increments skipped_unchanged and leaves
\* Product, Variant and SupplierProduct as they were.
C7_SkipUnchanged ==
    [][\A r \in Runs :
         (/\ ItemStep(r)
          /\ ~args[r].dry_run
          /\ \E i \in LinkOf(args[r].provider_code, RawItems[raw'[r]].pid) :
                 /\ links[i].raw = raw'[r]
                 /\ links[i].last_synced_at > clock - HashWindow) =>
             /\ CountsGet(counts'[r], "skipped_unchanged")
                    = CountsGet(counts[r], "skipped_unchanged") + 1
             /\ catalog' = catalog
      ]_vars

\* C8: a pass of a dry-run's loop leaves Product, Variant and
\* SupplierProduct (its raw hash included) exactly as they were.
C8_DryRunWritesNothing ==
    [][\A r \in Runs : (ItemStep(r) /\ args[r].dry_run) => catalog' = catalog]_vars

C8_Witness ==
    \E r \in Runs :
        /\ args[r].dry_run /\ counts[r]["raw_seen"] = 2
        /\ raw[r] = 2
        /\ counts[r]["errors"] = 2
        /\ catalog = << << >>, << >>, << >> >>

Delta(r, k) == CountsGet(counts'[r], k) - CountsGet(counts[r], k)

\* C9: on an item a non-dry run would upsert without error, a dry run
\* counts no error and its dry-run counters grow as the non-dry run's
\* upserted counters would; a dry run that returns without errors is
\* logged "success".
C9_DryRunPreview ==
    [][\A r \in Runs :
         /\ (ItemStep(r) /\ args[r].dry_run /\ BodyOf(r, FALSE).exc = None) =>
                LET wet == BodyOf(r, FALSE).counts
                IN  /\ counts'[r]["errors"] = counts[r]["errors"]
                    /\ Delta(r, "products_dry_run")
                           = wet["products_upserted"] - counts[r]["products_upserted"]
                    /\ Delta(r, "variants_dry_run")
                           = wet["variants_upserted"] - counts[r]["variants_upserted"]
                    /\ Delta(r, "links_dry_run")
                           = wet["links_upserted"] - counts[r]["links_upserted"]
         /\ (Finishes(r) /\ pc'[r] = "returned" /\ args[r].dry_run
             /\ counts[r]["errors"] = 0) =>
                logs'[LogRowOf(r)].status = "success"
      ]_vars

UniqueLinks ==
    \A i, j \in DOMAIN links :
        (links[i].provider_account = links[j].provider_account
         /\ links[i].external_id = links[j].external_id) => i = j

UniqueSkus ==
    \A i, j \in DOMAIN variants : variants[i].sku = variants[j].sku => i = j

\* C10: there is at most one SupplierProduct per (provider_account,
\* external_id) and one Variant per SKU, and a pass over an item this
\* account already synced adds no Product, Variant or SupplierProduct row;
\* a non-dry pass leaves the one link of the item holding its payload.
C10_SyncIdempotent ==
    /\ [](UniqueLinks /\ UniqueSkus)
    /\ [][\A r \in Runs :
            (ItemStep(r) /\ <<args[r].provider_code, raw'[r]>> \in synced) =>
                /\ Len(products') = Len(products)
                /\ Len(variants') = Len(variants)
                /\ Len(links') = Len(links)
                /\ ~args[r].dry_run =>
                      \A i \in LinkOf(args[r].provider_code, RawItems[raw'[r]].pid) :
                          links'[i].raw = raw'[r]
         ]_vars

C10_Witness ==
    \E r \in Runs :
        /\ ~args[r].dry_run /\ raw[r] = 1
        /\ counts[r]["products_upserted"] = 2 /\ counts[r]["links_upserted"] = 2
        /\ Len(products) = 1 /\ Len(variants) = 1 /\ Len(links) = 1
        /\ \E i \in DOMAIN links : links[i].last_synced_at > 0

\* The raw variant sub-records of an item whose SKU is blank or missing.
BlankSkus(rawId) ==
    {i \in DOMAIN RawItems[rawId].variants : Strip(RawItems[rawId].variants[i]) = ""}

\* C31: a pass of a non-dry run over an item that maps and upserts without
\* database error counts each of its blank-SKU variant sub-records in
\* variants_skipped, counts no error for them and stores no Variant with a
\* blank SKU.
C31_BlankSkuCounted ==
    [][\A r \in Runs :
         (/\ ItemStep(r)
          /\ ~args[r].dry_run
          /\ RawItems[raw'[r]].defect = "none") =>
             /\ Delta(r, "variants_skipped") = Cardinality(BlankSkus(raw'[r]))
             /\ Delta(r, "errors") = 0
             /\ \A i \in DOMAIN variants' : Strip(variants'[i].sku) # ""
      ]_vars

\* C34: the counters of a non-dry run count committed writes only: a pass
\* whose transaction is rolled back leaves products_upserted,
\* variants_upserted and links_upserted as they were, and a pass whose
\* upsert commits adds exactly one to products_upserted.
C34_CountersCountCommitted ==
    [][\A r \in Runs :
         (ItemStep(r) /\ ~args[r].dry_run) =>
             IF BodyOf(r, FALSE).exc # None
             THEN /\ Delta(r, "products_upserted") = 0
                  /\ Delta(r, "variants_upserted") = 0
                  /\ Delta(r, "links_upserted") = 0
             ELSE Delta(r, "products_upserted") = 1
      ]_vars

\* The title and the SKUs the adapter maps the item of the step to.
TitleOf(rawId) == MapToInternal(rawId).product.title

SkusOf(rawId) ==
    {MapToInternal(rawId).variants[i].sku : i \in DOMAIN MapToInternal(rawId).variants}

TitleExists(rawId) == ProductMatches(products, TitleOf(rawId)) # {}

SkuExists(sku) == VariantMatches(variants, sku) # {}

Mapped(r) == RawItems[raw'[r]].defect # "map"

\* C38 as stated: a non-dry pass over an item whose title or one of whose
\* SKUs already exists writes no Product and no Variant row; the link is
\* the only row it writes.
C38_OnlyLinkWritten ==
    [][\A r \in Runs :
         (/\ ItemStep(r) /\ ~args[r].dry_run /\ Mapped(r)
          /\ (TitleExists(raw'[r]) \/ \E x \in SkusOf(raw'[r]) : SkuExists(x))) =>
             /\ products' = products
             /\ variants' = variants
      ]_vars

\* C38, amended: a pass of the sync never changes a Product or a Variant
\* row that existed before it; it inserts a Product only when no Product
\* has the item's title and a Variant only for a SKU no Variant has; when
\* the title and every SKU of the item exist, the link is the only row it
\* writes.
C38_ExistingRowsKept ==
    [][\A r \in Runs :
         (ItemStep(r) /\ Mapped(r)) =>
             /\ \A i \in DOMAIN products :
                    i \in DOMAIN products' /\ products'[i] = products[i]
             /\ \A i \in DOMAIN variants :
                    i \in DOMAIN variants' /\ variants'[i] = variants[i]
             /\ Len(products') > Len(products) => ~TitleExists(raw'[r])
             /\ \A i \in (DOMAIN variants') \ (DOMAIN variants) :
                    ~SkuExists(variants'[i].sku)
             /\ (TitleExists(raw'[r]) /\ \A x \in SkusOf(raw'[r]) : SkuExists(x)) =>
                    /\ products' = products
                    /\ variants' = variants
      ]_vars

\* The item titled "Untitled" was synced after its SKU s1 had been stored
\* under another title: s1 keeps its Product, s2 is new under the new one.
C38_Witness ==
    \E r \in Runs :
        /\ ~args[r].dry_run /\ raw[r] = 2
        /\ Len(products) = 2 /\ products[2].title = "Untitled"
        /\ variants = <<[sku |-> "s1", product |-> 1], [sku |-> "s2", product |-> 2]>>
        /\ \E i \in DOMAIN links : links[i].raw = 2

\* ================================================= CJ adapter: the tokens
\* providers/adapters/cj.py, _ensure_token and what it calls, with the
\* callback of providers/services/sync.py that persists the tokens.  One
\* _ensure_token call is one step: it runs on one adapter object and its
\* two possible POSTs are the only points where it waits.
MaxIssued == 2     \* tokens the supplier issues

Skew == 10 * 60

\* Expiry instants found in a stored credentials_json.
StoredExpiries == {300, 7200}

\* expiresIn / refreshTokenExpiresIn of an answer, in seconds.
ExpiresIns == {Null, 3600}

\* What _http_post gives a login or a refresh: a decoded body (with or
\* without an access token, a refresh token, the two lifetimes), a
\* RateLimitedError, or the HTTP error left after the retries.
Responses ==
    { [kind |-> k, access |-> FALSE, refresh |-> FALSE,
       expiresIn |-> Null, refreshTokenExpiresIn |-> Null] :
          k \in {"RateLimitedError", "HTTPError"} }
    \cup
    { [kind |-> "body", access |-> a, refresh |-> r,
       expiresIn |-> e, refreshTokenExpiresIn |-> x] :
          a \in BOOLEAN, r \in BOOLEAN, e \in ExpiresIns, x \in ExpiresIns }

\* datetime.isoformat(): the text of an instant; the empty text is no value.
IsoFormat(t) == <<t>>

ParseIsoDt(x) == IF x = << >> THEN Null ELSE x[1]

ParseExpiry(expires_in, t) ==
    IF expires_in = Null THEN Null ELSE t + expires_in

Or(a, b) == IF a # Null THEN a ELSE b

NewAdapter(c) ==
    [_token |-> c.access_token,
     _refresh_token |-> c.refresh_token,
     _token_expiry |-> ParseIsoDt(c.access_token_expires),
     _refresh_expiry |-> ParseIsoDt(c.refresh_token_expires)]

SaveTokens(c, access, refresh, access_expiry, refresh_expiry) ==
    [c EXCEPT !.access_token = IF access # Null THEN access ELSE @,
              !.refresh_token = IF refresh # Null THEN refresh ELSE @,
              !.access_token_expires =
                  IF access_expiry # Null THEN IsoFormat(access_expiry) ELSE @,
              !.refresh_token_expires =
                  IF refresh_expiry # Null THEN IsoFormat(refresh_expiry) ELSE @]

\* st is the frame of one _ensure_token call: the adapter object, the
\* account's credentials_json and what the call did so far.
AssignTokens(st, access, refresh, access_exp, refresh_exp) ==
    [st EXCEPT !.adapter = [_token |-> access,
                            _refresh_token |-> refresh,
                            _token_expiry |-> access_exp,
                            _refresh_expiry |-> refresh_exp],
               !.creds = SaveTokens(@, access, refresh, access_exp, refresh_exp),
               !.saved = @ + 1]

Login(st, lo, k, t) ==
    IF ~st.creds.has_login
    THEN [st EXCEPT !.login = "missing_credentials", !.result = "CJAuthError"]
    ELSE IF lo.kind = "RateLimitedError"
    THEN [st EXCEPT !.login = "rate_limited", !.result = "CJAuthError"]
    ELSE IF lo.kind = "HTTPError"
    THEN [st EXCEPT !.login = "http_error", !.result = "HTTPError"]
    ELSE IF ~lo.access
    THEN [st EXCEPT !.login = "no_access", !.result = "CJAuthError"]
    ELSE [AssignTokens(st, k, IF lo.refresh THEN k ELSE Null,
                       ParseExpiry(lo.expiresIn, t),
                       ParseExpiry(lo.refreshTokenExpiresIn, t))
            EXCEPT !.login = "ok", !.result = "returned"]

\* _refresh: ok is its return value, result is set when it raises.
Refresh(st, ro, k, t) ==
    IF st.adapter._refresh_token = Null
    THEN [st EXCEPT !.refresh = "unavailable", !.ok = FALSE]
    ELSE IF ro.kind = "RateLimitedError"
    THEN [st EXCEPT !.refresh = "rate_limited", !.ok = (st.adapter._token # Null)]
    ELSE IF ro.kind = "HTTPError"
    THEN [st EXCEPT !.refresh = "http_error", !.result = "HTTPError"]
    ELSE IF ~ro.access
    THEN [st EXCEPT !.refresh = "no_access", !.ok = FALSE]
    ELSE [AssignTokens(st, k,
                       IF ro.refresh THEN k ELSE st.adapter._refresh_token,
                       ParseExpiry(ro.expiresIn, t),
                       Or(ParseExpiry(ro.refreshTokenExpiresIn, t),
                          st.adapter._refresh_expiry))
            EXCEPT !.refresh = "ok", !.ok = TRUE]

TokenUsable(a, t) ==
    a._token # Null /\ (a._token_expiry = Null \/ a._token_expiry > t + Skew)

RefreshUsable(a, t) ==
    a._refresh_token # Null /\ (a._refresh_expiry = Null \/ a._refresh_expiry > t)

EnsureToken(a, c, t, ro, lo, k) ==
    LET st0 == [adapter |-> a, creds |-> c, saved |-> 0, reused |-> FALSE,
                refresh |-> "none", login |-> "none", result |-> "none",
                ok |-> FALSE]
    IN  IF TokenUsable(a, t)
        THEN [st0 EXCEPT !.reused = TRUE, !.result = "returned"]
        ELSE IF RefreshUsable(a, t)
        THEN LET s1 == Refresh(st0, ro, k, t)
             IN  IF s1.result # "none" THEN s1
                 ELSE IF s1.ok THEN [s1 EXCEPT !.result = "returned"]
                 ELSE Login(s1, lo, k, t)
        ELSE Login([st0 EXCEPT !.refresh = "unavailable"], lo, k, t)

\* get_adapter: a new adapter object is built from the stored credentials.
Construct ==
    /\ adapter' = NewAdapter(creds)
    /\ auth' = NoCall
    /\ UNCHANGED <<creds, issued>>
    /\ UNCHANGED exceptAuth

EnsureTokenStep(ro, lo) ==
    LET st == EnsureToken(adapter, creds, clock, ro, lo, issued + 1)
    IN  /\ issued + st.saved <= MaxIssued
        /\ adapter' = st.adapter
        /\ creds' = st.creds
        /\ issued' = issued + st.saved
        /\ auth' = [reused |-> st.reused, refresh |-> st.refresh,
                    login |-> st.login, result |-> st.result,
                    saved |-> st.saved, at |-> clock]

CallEnsureToken(ro, lo) ==
    /\ auth.result \in {"none", "returned"}
    /\ EnsureTokenStep(ro, lo)
    /\ UNCHANGED exceptAuth

\* The account as the operator configured it or as an earlier run left it.
AuthInit ==
    /\ \E l \in BOOLEAN, a \in {Null, 0}, r \in {Null, 0},
          ae \in {<< >>} \cup {IsoFormat(e) : e \in StoredExpiries},
          re \in {<< >>} \cup {IsoFormat(e) : e \in StoredExpiries} :
            creds = [has_login |-> l, access_token |-> a, refresh_token |-> r,
                     access_token_expires |-> ae, refresh_token_expires |-> re]
    /\ adapter = NewAdapter(creds)
    /\ auth = NoCall
    /\ issued = 0

InitAuth ==
    /\ SyncInit
    /\ AuthInit
    /\ HttpAtRest
    /\ ListAtRest
    /\ ImportAtRest

NextAuth ==
    \/ Construct
    \/ \E ro \in Responses, lo \in Responses : CallEnsureToken(ro, lo)
    \/ Tick

SpecAuth == InitAuth /\ [][NextAuth]_vars
\* ------------------------------------------------- the claims on tokens
\* C11: whenever _ensure_token returns without raising, the adapter holds
\* an access token whose known expiry lies after the instant of the call
\* (a token of unknown expiry is taken as not expired).
C11_TokenNotExpired ==
    auth.result = "returned" =>
        /\ adapter._token # Null
        /\ adapter._token_expiry = Null \/ adapter._token_expiry > auth.at

\* C12: a call that does not reuse the current token and whose refresh
\* is unavailable or fails (rate-limited, HTTP error after the retries,
\* answer without access token) performs a full login before it returns
\* or raises; the token is reused only when its expiry is unknown or more
\* than ten minutes away, and a refresh is sent only with a stored,
\* unexpired refresh token.
C12_LoginAfterFailedRefresh ==
    auth.result # "none" =>
        /\ (~auth.reused /\ auth.refresh # "ok") => auth.login # "none"
        /\ auth.reused => auth.refresh = "none" /\ auth.login = "none"
        /\ auth.refresh = "ok" => auth.login = "none"

\* C13: a login or a refresh that is rate-limited reaches the caller of
\* _ensure_token as a RateLimitedError, neither as a CJAuthError nor as a
\* normal return after which the run goes on.
C13_RateLimitedAuthIsDistinct ==
    (auth.refresh = "rate_limited" \/ auth.login = "rate_limited")
        => auth.result = "RateLimitedError"

\* C14: after a successful login or refresh the credentials_json holds
\* the access token, the refresh token and the two expiries the adapter
\* holds in memory; a call without a successful login or refresh leaves
\* the credentials_json as it was and does not invoke the callback.
BagMatchesMemory ==
    /\ creds.access_token = adapter._token
    /\ creds.refresh_token = adapter._refresh_token
    /\ ParseIsoDt(creds.access_token_expires) = adapter._token_expiry
    /\ ParseIsoDt(creds.refresh_token_expires) = adapter._refresh_expiry

Succeeded(a) == (IF a.refresh = "ok" THEN 1 ELSE 0) + (IF a.login = "ok" THEN 1 ELSE 0)

C14_TokensPersisted ==
    [][ /\ auth'.saved = Succeeded(auth')
        /\ auth'.saved > 0 => BagMatchesMemory'
        /\ auth'.saved = 0 => creds' = creds
      ]_vars
\* ======================================= CJ adapter: budget and requests
\* providers/adapters/cj.py, _budget and _http_get / _http_post.  Each
\* adapter process makes its calls one after the other; a call charges
\* the day's counter in the shared cache, waits for its pacing, sends the
\* request and classifies the answer.
RetryChoices == {1, DefaultRetries}

DailyCaps == {1, 3}

\* The answers of one request: a good response, HTTP 429 or a vendor
\* rate-limit code, an exception of requests, a 5xx status.
Outcomes == {"ok", "rate_limited", "conn_error", "http_5xx"}

Failures == {"conn_error", "http_5xx"}

Active == {"budget", "sleep", "wait"}

OverCapOffByOne(new_val, cap) == new_val > cap + 1

OverCap(new_val, cap) == new_val > cap

BackoffConstant(attempt) == 500

\* time.sleep(0.5 * attempt), in milliseconds
Backoff(attempt) == 500 * attempt

BeginCall(p) ==
    /\ http[p].pc \notin Active
    /\ calls < MaxCalls
    /\ calls' = calls + 1
    /\ http' = [http EXCEPT ![p] = [@ EXCEPT !.pc = "budget", !.attempt = 1,
                                            !.sent = 0, !.slept = 0,
                                            !.err = None, !.last = None]]
    /\ UNCHANGED <<today, reqcount, conf, sentOn>>
    /\ UNCHANGED exceptHttp

\* _budget(1): _check_reset_counter, cache.add, cache.incr, the test.
Budget(p) ==
    /\ http[p].pc = "budget"
    /\ LET new_val == reqcount[today] + 1
       IN  /\ reqcount' = [reqcount EXCEPT ![today] = new_val]
           /\ IF OverCap(new_val, conf.daily_cap)
              THEN http' = [http EXCEPT
                              ![p] = [@ EXCEPT !.pc = "raised",
                                               !.err = "RateLimitedError",
                                               !._req_date = today,
                                               !._req_count =
                                                   IF today # http[p]._req_date
                                                   THEN 0 ELSE @]]
              ELSE http' = [http EXCEPT
                              ![p] = [@ EXCEPT !.pc = "sleep",
                                               !._req_date = today,
                                               !._req_count = new_val]]
    /\ UNCHANGED <<today, conf, sentOn, calls>>
    /\ UNCHANGED exceptHttp

\* _maybe_sleep is over and requests.get / requests.post sends the request
\* that was charged to the counter of _req_date.
Send(p) ==
    /\ http[p].pc = "sleep"
    /\ http' = [http EXCEPT ![p] = [@ EXCEPT !.pc = "wait", !.sent = @ + 1]]
    /\ sentOn' = [sentOn EXCEPT ![http[p]._req_date] = @ + 1]
    /\ UNCHANGED <<today, reqcount, conf, calls>>
    /\ UNCHANGED exceptHttp

Respond(p, o) ==
    /\ http[p].pc = "wait"
    /\ LET h == [http[p] EXCEPT !.last = o]
       IN  http' = [http EXCEPT ![p] =
              IF o = "ok" THEN [h EXCEPT !.pc = "returned"]
              ELSE IF o = "rate_limited"
              THEN [h EXCEPT !.pc = "raised", !.err = "RateLimitedError"]
              ELSE IF h.attempt >= conf.max_retries
              THEN [h EXCEPT !.pc = "raised",
                             !.err = IF o = "conn_error" THEN "ConnectionError"
                                     ELSE "HTTPError"]
              ELSE [h EXCEPT !.pc = "budget", !.attempt = @ + 1,
                             !.slept = @ + Backoff(h.attempt)]]
    /\ UNCHANGED <<today, reqcount, conf, sentOn, calls>>
    /\ UNCHANGED exceptHttp

\* _today_str() changes: a UTC midnight passes.
Midnight ==
    /\ today < MaxDays
    /\ today' = today + 1
    /\ UNCHANGED <<reqcount, conf, http, sentOn, calls>>
    /\ UNCHANGED exceptHttp

HttpInit ==
    /\ today = 0
    /\ reqcount = [d \in Days |-> 0]
    /\ \E r \in RetryChoices, c \in DailyCaps :
          conf = [max_retries |-> r, daily_cap |-> c]
    /\ http = [p \in Procs |-> NoHttp]
    /\ sentOn = [d \in Days |-> 0]
    /\ calls = 0

InitHttp ==
    /\ SyncInit
    /\ AuthAtRest
    /\ HttpInit
    /\ ListAtRest
    /\ ImportAtRest

NextHttp ==
    \/ \E p \in Procs : BeginCall(p)
    \/ \E p \in Procs : Budget(p)
    \/ \E p \in Procs : Send(p)
    \/ \E p \in Procs, o \in Outcomes : Respond(p, o)
    \/ Midnight

SpecHttp == InitHttp /\ [][NextHttp]_vars
\* ------------------------------------- the claims on budget and requests
CapRefused(p) ==
    /\ http[p].pc = "raised"
    /\ http[p].err = "RateLimitedError"
    /\ http[p].last # "rate_limited"

C37_RefusedChargeFree ==
    /\ [](\A d \in Days : reqcount[d] <= conf.daily_cap)
    /\ [][\A p \in Procs :
            (http[p].pc = "budget" /\ http'[p].pc = "raised") => reqcount' = reqcount
         ]_vars


\* C17: one _http_get / _http_post call makes at most max_retries
\* attempts; it returns on the first good response, raises
\* RateLimitedError on the first rate-limited response without another
\* attempt, sleeps 0.5 * k seconds after a failed attempt k < max_retries
\* and raises after the failed attempt max_retries; every step of a call
\* brings it nearer to its end.
C17_Inv ==
    \A p \in Procs :
        LET h == http[p]
        IN  /\ h.attempt <= conf.max_retries
            /\ h.sent <= h.attempt
            /\ h.slept = 250 * h.attempt * (h.attempt - 1)
            /\ h.pc = "returned" <=> h.last = "ok"
            /\ h.pc = "returned" => h.sent = h.attempt
            /\ h.last = "rate_limited" =>
                   h.pc = "raised" /\ h.err = "RateLimitedError"
            /\ (h.pc = "raised" /\ h.err # "RateLimitedError") =>
                   h.attempt = conf.max_retries /\ h.last \in Failures
            /\ (h.pc \in Active /\ h.attempt > 1) => h.last \in Failures

Rank(pcv) ==
    IF pcv = "budget" THEN 3 ELSE IF pcv = "sleep" THEN 2
    ELSE IF pcv = "wait" THEN 1 ELSE 0

Measure(h) ==
    IF h.pc \in Active THEN 3 * (conf.max_retries - h.attempt) + Rank(h.pc)
    ELSE 0

C17_BoundedRetries ==
    /\ []C17_Inv
    /\ [][ \A p \in Procs :
             (http[p].pc \in Active /\ http'[p] # http[p])
                 => Measure(http'[p]) < Measure(http[p]) ]_vars

C17_Witness ==
    \E p \in Procs :
        /\ http[p].pc = "raised"
        /\ http[p].err = "HTTPError"
        /\ http[p].attempt = DefaultRetries
        /\ http[p].slept = 1500
\* ============================================ CJ adapter: list_products
\* providers/adapters/cj.py, list_products and _get_detail_single.  The
\* generator advances by one _http_get call per step; the items a call
\* makes it yield are appended to out.
MaxRows == 2       \* rows of the listing pages, over all pages

FetchModes == {"list_only", "bulk_detail", "per_detail"}

PageLimits == {1, 2}

BulkSizes == {1, 2}

Pids == {"p1", "p2"}

\* The pid of a listing row; "" is a row without pid.
RowPids == Pids \cup {""}

ListingPages == UNION { [1 .. n -> RowPids] : n \in 0 .. MaxRows }

\* What one _http_get call gives: a response, a RateLimitedError after a
\* request answered 429 (or with a vendor code), a RateLimitedError of
\* _budget before any request, the HTTP error left after the retries.
\* Once the daily cap is reached every later charge is refused.
CallOutcomes(l) ==
    IF l.cap_hit THEN {"rl_cap"}
    ELSE {"ok", "rl_429", "rl_cap", "http_error"}

AfterCall(l, o) ==
    [l EXCEPT !.rl = @ \/ o \in {"rl_429", "rl_cap"},
              !.cap_hit = @ \/ o = "rl_cap",
              !.after_rl = @ \/ (l.rl /\ o # "rl_cap")]

Raise(l, o) ==
    [l EXCEPT !.pc = "raised",
              !.err = IF o = "http_error" THEN "HTTPError"
                      ELSE "RateLimitedError"]

NonBlank(rows) == SelectSeq(rows, LAMBDA x : x # "")

Take(sq, n) == SubSeq(sq, 1, IF n < Len(sq) THEN n ELSE Len(sq))

Drop(sq, n) == SubSeq(sq, (IF n < Len(sq) THEN n ELSE Len(sq)) + 1, Len(sq))

Yield(by, c, pidseq) ==
    [i \in 1 .. Len(pidseq) |-> [pid |-> pidseq[i], by |-> by, chunk |-> c]]

PageEndSamePage(l) ==
    [l EXCEPT !.pc = "page", !.pids = << >>, !.chunk = << >>, !.idx = 0,
              !.got_any = FALSE, !.tried = << >>, !.empties = 0]

\* The end of the loop body: pages_done += 1, page_num += 1
PageEnd(l) ==
    LET d == l.pages_done + 1
    IN  [l EXCEPT !.pages_done = d,
                  !.page_num = @ + 1,
                  !.pc = IF d < l.max_pages THEN "page" ELSE "done",
                  !.pids = << >>, !.chunk = << >>, !.idx = 0,
                  !.got_any = FALSE, !.tried = << >>, !.empties = 0]

NextChunk(l) ==
    IF l.pids = << >> THEN PageEnd(l)
    ELSE [l EXCEPT !.chunk = Take(l.pids, l.bulk_size),
                   !.pids = Drop(l.pids, l.bulk_size),
                   !.pc = "attempt1", !.idx = 0,
                   !.got_any = FALSE, !.tried = << >>, !.empties = 0]

NextDetail(l) ==
    IF l.pids = << >> THEN PageEnd(l) ELSE [l EXCEPT !.pc = "detail"]

ChunkRecord(l) == [n |-> Len(l.chunk), tried |-> l.tried, empties |-> l.empties]

\* The pages list_products is asked to start at.
StartPages == {1, 3}

\* page_num = int(page) if page and page > 0 else 1
StartPage(page) == IF page > 0 THEN page ELSE 1

\* list_products is called: _ensure_token, then the first page is due.
\* asked lists the pageNum of the listing requests sent, token_checks
\* counts the calls of _ensure_token, ended tells that a listing came
\* back without items.
ListProducts(mode, page, mp, bs, ro, lo) ==
    /\ lp.pc = "idle"
    /\ EnsureTokenStep(ro, lo)
    /\ LET l0 == [NoList EXCEPT
                    !.fetch_mode = mode, !.max_pages = mp, !.bulk_size = bs,
                    !.page_num = StartPage(page), !.token_checks = 1,
                    !.rl = (auth'.refresh = "rate_limited"
                                \/ auth'.login = "rate_limited")]
       IN  lp' = IF auth'.result = "returned"
                 THEN [l0 EXCEPT !.pc = "page"]
                 ELSE [l0 EXCEPT !.pc = "raised", !.err = auth'.result]
    /\ UNCHANGED <<out, chunks>>
    /\ UNCHANGED exceptList

GetPage(o, page) ==
    /\ lp.pc = "page"
    /\ o \in CallOutcomes(lp)
    /\ lp.rows_seen + Len(page) <= MaxRows
    /\ (o # "ok") => page = << >>
    /\ LET l == [AfterCall(lp, o) EXCEPT
                    !.rows_seen = @ + Len(page),
                    !.asked = IF o = "rl_cap" THEN @ ELSE Append(@, lp.page_num)]
       IN  IF o # "ok"
           THEN lp' = Raise(l, o) /\ out' = out
           ELSE IF page = << >>
           THEN lp' = [l EXCEPT !.pc = "done", !.ended = TRUE] /\ out' = out
           ELSE IF l.fetch_mode = "list_only"
           THEN lp' = PageEnd(l) /\ out' = out \o Yield("list", 0, page)
           ELSE IF l.fetch_mode = "bulk_detail"
           THEN lp' = NextChunk([l EXCEPT !.pids = NonBlank(page)]) /\ out' = out
           ELSE lp' = NextDetail([l EXCEPT !.pids = NonBlank(page)]) /\ out' = out
    /\ UNCHANGED chunks
    /\ UNCHANGED <<authVars, exceptList>>
GotAnyNever(k) == FALSE

\* got_any after the loop over the k details of a bulk answer
GotAny(k) == k > 0

\* One bulk request for the chunk: the k details it returns are yielded;
\* any exception of the call is swallowed (except Exception: pass).
BulkAttempt(by, o, k, onNone) ==
    /\ o \in CallOutcomes(lp)
    /\ k \in 0 .. Len(lp.chunk)
    /\ (o # "ok") => k = 0
    /\ LET l == [AfterCall(lp, o) EXCEPT !.tried = Append(@, by),
                                         !.got_any = GotAny(k)]
       IN  /\ out' = out \o Yield(by, Len(chunks) + 1, Take(l.chunk, k))
           /\ IF l.got_any
              THEN /\ chunks' = Append(chunks, ChunkRecord(l))
                   /\ lp' = NextChunk(l)
              ELSE /\ chunks' = chunks
                   /\ lp' = [l EXCEPT !.pc = onNone,
                                      !.idx = IF onNone = "fallback" THEN 1 ELSE 0]
    /\ UNCHANGED <<authVars, exceptList>>

\* Attempt 1: params = {"pids": ",".join(chunk)}
Attempt1(o, k) ==
    /\ lp.pc = "attempt1"
    /\ BulkAttempt("csv", o, k, "attempt2")

\* Attempt 2: params = {"pids": chunk}
Attempt2(o, k) ==
    /\ lp.pc = "attempt2"
    /\ BulkAttempt("array", o, k, "fallback")

\* Fallback: _get_detail_single for the next identifier of the chunk; d
\* tells whether the answer holds a detail.
Fallback(o, d) ==
    /\ lp.pc = "fallback"
    /\ o \in CallOutcomes(lp)
    /\ LET l == [AfterCall(lp, o) EXCEPT
                    !.tried = IF lp.idx = 1 THEN Append(@, "single") ELSE @]
       IN  IF o # "ok"
           THEN lp' = Raise(l, o) /\ out' = out /\ chunks' = chunks
           ELSE LET l2 == [l EXCEPT !.idx = @ + 1,
                                    !.empties = IF d THEN @ ELSE @ + 1]
                IN  /\ out' = IF d
                              THEN out \o Yield("single", Len(chunks) + 1,
                                                <<l.chunk[l.idx]>>)
                              ELSE out
                    /\ IF l.idx = Len(l.chunk)
                       THEN /\ chunks' = Append(chunks, ChunkRecord(l2))
                            /\ lp' = NextChunk(l2)
                       ELSE /\ chunks' = chunks
                            /\ lp' = l2
    /\ UNCHANGED <<authVars, exceptList>>

\* per_detail: _get_detail_single for the next row that has a pid.
Detail(o, d) ==
    /\ lp.pc = "detail"
    /\ o \in CallOutcomes(lp)
    /\ LET l == AfterCall(lp, o)
       IN  IF o # "ok"
           THEN lp' = Raise(l, o) /\ out' = out
           ELSE /\ out' = IF d THEN out \o Yield("detail", 0, <<Head(l.pids)>>)
                          ELSE out
                /\ lp' = NextDetail([l EXCEPT !.pids = Tail(@)])
    /\ UNCHANGED chunks
    /\ UNCHANGED <<authVars, exceptList>>

\* The account list_products runs for: its stored token is about to
\* expire and it holds a refresh token.
ListAccount ==
    [has_login |-> TRUE, access_token |-> 0, refresh_token |-> 0,
     access_token_expires |-> IsoFormat(300),
     refresh_token_expires |-> << >>]

\* The answers to its refresh and to its login: rate-limited, failed
\* after the retries, without access token, with both tokens.
ListResponses ==
    { r \in Responses :
         \/ r.kind # "body"
         \/ ~r.access /\ ~r.refresh /\ r.expiresIn = Null
                /\ r.refreshTokenExpiresIn = Null
         \/ r.access /\ r.refresh /\ r.expiresIn # Null
                /\ r.refreshTokenExpiresIn # Null }

ListInit ==
    /\ creds = ListAccount
    /\ adapter = NewAdapter(creds)
    /\ auth = NoCall
    /\ issued = 0
    /\ ListAtRest

InitList ==
    /\ SyncInit
    /\ HttpAtRest
    /\ ListInit
    /\ ImportAtRest

NextList ==
    \/ \E m \in FetchModes, pg \in StartPages, mp \in PageLimits,
          bs \in BulkSizes, ro \in ListResponses, lo \in ListResponses :
              ListProducts(m, pg, mp, bs, ro, lo)
    \/ \E o \in {"ok", "rl_429", "rl_cap", "http_error"}, page \in ListingPages :
          GetPage(o, page)
    \/ \E o \in {"ok", "rl_429", "rl_cap", "http_error"}, k \in 0 .. MaxRows :
          Attempt1(o, k)
    \/ \E o \in {"ok", "rl_429", "rl_cap", "http_error"}, k \in 0 .. MaxRows :
          Attempt2(o, k)
    \/ \E o \in {"ok", "rl_429", "rl_cap", "http_error"}, d \in BOOLEAN :
          Fallback(o, d)
    \/ \E o \in {"ok", "rl_429", "rl_cap", "http_error"}, d \in BOOLEAN :
          Detail(o, d)

SpecList == InitList /\ [][NextList]_vars
\* --------------------------------------------- the claims on list_products
\* C16: once a call made during list_products was rate-limited (429, a
\* vendor code or the daily cap, the token refresh and the login
\* included), the generator has raised RateLimitedError to its caller and
\* no request was sent after that call, in every fetch mode.
C16_RateLimitStops ==
    lp.rl => /\ lp.pc = "raised"
             /\ lp.err = "RateLimitedError"
             /\ ~lp.after_rl

Strategies == <<"csv", "array", "single">>

Prefixes == { SubSeq(Strategies, 1, n) : n \in 0 .. 3 }

EntriesOf(c) == { i \in 1 .. Len(out) : out[i].chunk = c }

ByOf(c) == { out[i].by : i \in EntriesOf(c) }

Current == Len(chunks) + 1

\* C18: for each chunk the comma-separated request comes first, the
\* array form only after it yielded nothing, the per-identifier requests
\* only after both yielded nothing; the items of a chunk all come from
\* one strategy, the last one tried; a chunk of n identifiers that ends
\* in the per-identifier requests yields one item per answered detail, n
\* items when every answer holds a detail.
C18_BulkDegradation ==
    /\ lp.tried \in Prefixes
    /\ lp.pc = "attempt1" => lp.tried = << >> /\ ByOf(Current) = {}
    /\ lp.pc = "attempt2" => lp.tried = SubSeq(Strategies, 1, 1) /\ ByOf(Current) = {}
    /\ lp.pc = "fallback" =>
          /\ lp.tried = SubSeq(Strategies, 1, IF lp.idx = 1 THEN 2 ELSE 3)
          /\ ByOf(Current) \subseteq {"single"}
          /\ Cardinality(EntriesOf(Current)) = (lp.idx - 1) - lp.empties
    /\ \A c \in 1 .. Len(chunks) :
          /\ chunks[c].tried \in Prefixes \ {<< >>}
          /\ ByOf(c) \subseteq {chunks[c].tried[Len(chunks[c].tried)]}
          /\ Len(chunks[c].tried) < 3 => ByOf(c) # {}
          /\ Len(chunks[c].tried) = 3 =>
                Cardinality(EntriesOf(c)) = chunks[c].n - chunks[c].empties

C18_Witness ==
    \E c \in 1 .. Len(chunks) :
        /\ chunks[c].tried = Strategies
        /\ chunks[c].n = 2
        /\ chunks[c].empties = 0
        /\ Cardinality(EntriesOf(c)) = 2
        /\ ~lp.rl
\* ================================================ the manual importer
\* catalog/importers/manual.py: parse_file_to_preview, _upsert_one and
\* commit_import_payload.  A commit computes its preview in one step and
\* then upserts row after row, each row in its own transaction.
MaxCommits == 2    \* commit_import_payload calls

\* The numbers of rows of the uploaded files.
FileLengths == {1, 2}

VALID_CURRENCIES == {"USD", "EUR", "GBP", "NGN"}

REQUIRED_FIELDS == <<"title", "sku", "price">>

DefaultPerPage == 500

\* qty_available of a row: absent, an integer, or a text int() rejects.
Qty(t, v) == [t |-> t, v |-> v]

RawRow(title, sku, price, currency, qty, mode, key, media_urls) ==
    [title |-> title, sku |-> sku, price |-> price, currency |-> currency,
     qty_available |-> qty, stock_mode |-> mode, product_key |-> key,
     media_urls |-> media_urls, weight |-> ""]

\* The row with a weight cell.
WithWeight(row, weight) == [row EXCEPT !.weight = weight]

\* The rows of the uploaded files ("" is an absent or empty cell).
RawRows ==
    { RawRow("X", "A", "10.00", "USD", Qty("int", 5), "set", "", << >>),
      RawRow("X", "A", "10.00", "", Qty("int", -1), "SET", "", << >>),
      RawRow("X", "A", "10.00", "USD", Qty("int", 2), "increment", "", << >>),
      RawRow("X", "A", "10.00", "USD", Qty("int", -6), "increment", "", << >>),
      RawRow("X", "B", "10.00", "eur", Qty("none", 0), "", "k", << >>),
      RawRow("X", "A", "12.00", "ZZZ", Qty("int", 5), "set", "", << >>),
      RawRow(" ", "B", "abc", "USD", Qty("text", 0), "bogus", "k", << >>) }

\* Rows with media_urls: one url, and a url repeated around an empty one.
MediaRows ==
    { RawRow("X", "A", "10.00", "USD", Qty("int", 5), "set", "k", << >>),
      RawRow("X", "A", "10.00", "USD", Qty("none", 0), "set", "", <<"u">>),
      RawRow("X", "A", "10.00", "USD", Qty("none", 0), "set", "", <<"v", "", "v">>),
      RawRow("X", "B", "10.00", "USD", Qty("none", 0), "set", "k", <<"u", "v">>) }

\* Large uploads: a valid row, a row of another SKU and a row with a
\* validation error, over and over.
LongCycle ==
    << RawRow("X", "A", "10.00", "USD", Qty("int", 5), "set", "", << >>),
       RawRow("X", "B", "10.00", "eur", Qty("none", 0), "", "k", << >>),
       RawRow("X", "A", "12.00", "ZZZ", Qty("int", 5), "set", "", << >>) >>

LongFile(n) == [i \in 1 .. n |-> LongCycle[((i - 1) % 3) + 1]]

BulkLengths == {2, 501}

PagedLengths == {0, 50, 51, 1200}

PageChoices == {-1, 1, 2, 3, 25}

PerPageChoices == {1, DefaultPerPage, 3000}

\* Rows grouped by product_key, with and without a weight cell; "abc" is
\* a weight Decimal() rejects.
GroupRows ==
    { WithWeight(RawRow("X", "A", "10.00", "USD", Qty("none", 0), "set", "k", << >>), "abc"),
      WithWeight(RawRow("X", "A", "10.00", "USD", Qty("int", 5), "set", "k", << >>), "0.5"),
      RawRow("X", "B", "10.00", "USD", Qty("none", 0), "set", "k", << >>),
      RawRow("X", "B", "10.00", "USD", Qty("none", 0), "set", "", << >>) }

GroupFiles == UNION { [1 .. n -> GroupRows] : n \in FileLengths }

MediaFiles == UNION { [1 .. n -> MediaRows] : n \in FileLengths }

Files == UNION { [1 .. n -> RawRows] : n \in FileLengths }

UpperCurrency(c) ==
    CASE c = "eur" -> "EUR"
      [] OTHER -> c

LowerMode(m) ==
    CASE m = "SET" -> "set"
      [] OTHER -> m

\* Decimal(str(x)) succeeds.
IsDecimal(x) == x \in {"10.00", "12.00", "0.5"}

NormalizeRow(raw_in) ==
    [title |-> Strip(raw_in.title),
     sku |-> Strip(raw_in.sku),
     price |-> raw_in.price,
     currency |-> UpperCurrency(IF raw_in.currency = "" THEN "USD" ELSE raw_in.currency),
     qty_available |-> raw_in.qty_available,
     stock_mode |-> LowerMode(IF raw_in.stock_mode = "" THEN "set" ELSE raw_in.stock_mode),
     product_key |-> Strip(raw_in.product_key),
     media_urls |-> raw_in.media_urls,
     weight |-> raw_in.weight]

Cond(c, e) == IF c THEN <<e>> ELSE << >>

Err(code) == [code |-> code, allowed |-> {}]

ValidateRow(n) ==
    Cond(Strip(n.title) = "", Err("missing title"))
    \o Cond(Strip(n.sku) = "", Err("missing sku"))
    \o Cond(Strip(n.price) = "", Err("missing price"))
    \o Cond(~IsDecimal(n.price), Err("price"))
    \o Cond(n.currency # "" /\ n.currency \notin VALID_CURRENCIES,
            [code |-> "currency", allowed |-> VALID_CURRENCIES])
    \o Cond(n.qty_available.t = "text", Err("qty_available"))
    \o Cond(n.stock_mode # "" /\ n.stock_mode \notin {"set", "increment"},
            Err("stock_mode"))

ExistsNever(s, sku) == FALSE

Exists(s, sku) == s.variants[sku] # 0

ClassifyUpdatingAlways(n, upsert, s) ==
    IF Exists(s, n.sku) THEN "update" ELSE "create"

ClassifyAction(n, upsert, s) ==
    IF Exists(s, n.sku) /\ upsert THEN "update"
    ELSE IF Exists(s, n.sku) /\ ~upsert THEN "skip"
    ELSE "create"

PreviewRow(raw_in, upsert, s) ==
    LET n == NormalizeRow(raw_in)
        errs == ValidateRow(n)
    IN  [n |-> n, errors |-> errs,
         action |-> IF errs = << >> THEN ClassifyAction(n, upsert, s) ELSE "error"]

CountAction(rows, a) == Cardinality({ i \in 1 .. Len(rows) : rows[i].action = a })

Min2(a, b) == IF a < b THEN a ELSE b

Max2(a, b) == IF a > b THEN a ELSE b

PageStartNext(page, per_page) == page * per_page

\* The rows before the page.
PageStart(page, per_page) == (page - 1) * per_page

ParseFileToPreview(file, upsert, page, per_page, s) ==
    LET rows_full == [i \in 1 .. Len(file) |-> PreviewRow(file[i], upsert, s)]
        total == Len(rows_full)
        per == Max2(50, Min2(per_page, 2000))
        total_pages == Max2(1, (total + per - 1) \div per)
        pg == Max2(1, Min2(page, total_pages))
        start == PageStart(pg, per)
    IN  [rows |-> SubSeq(rows_full, start + 1, Min2(start + per, total)),
         stats |-> [total |-> total,
                    to_create |-> CountAction(rows_full, "create"),
                    to_update |-> CountAction(rows_full, "update"),
                    to_skip |-> CountAction(rows_full, "skip"),
                    errors |-> CountAction(rows_full, "error")],
         upsert |-> upsert,
         token |-> file,
         page |-> pg,
         per_page |-> per,
         total_pages |-> total_pages,
         asked |-> [page |-> page, per_page |-> per_page]]

Max0(x) == IF x > 0 THEN x ELSE 0

NewQtyAdding(mode, inv, qty) == Max0(inv + qty)

\* inv.qty_available after the row's quantity, by stock_mode
NewQty(mode, inv, qty) ==
    IF mode = "increment" THEN Max0(inv + qty) ELSE Max0(qty)

GetOrCreateQtyFresh(s, sku) == 0

\* Inventory.objects.get_or_create: the quantity of the SKU's row, 0 in a
\* row it has to create.
GetOrCreateQty(s, sku) ==
    IF s.inventory[sku] = Null THEN 0 ELSE s.inventory[sku]

ExistingUrls(gallery) == { gallery[i].url : i \in 1 .. Len(gallery) }

IsMainFirstCreated(has_media, media_created, idx) == media_created = 0

\* The first created item of a variant without any media is the main one.
IsMain(has_media, media_created, idx) ==
    ~has_media /\ media_created = 0 /\ idx = 1

\* The loop over the row's urls: existing is read once before the loop.
RECURSIVE AttachMedia(_, _, _, _, _, _)
AttachMedia(urls, idx, existing, has_media, media_created, gallery) ==
    IF idx > Len(urls) THEN gallery
    ELSE IF urls[idx] \in existing
    THEN AttachMedia(urls, idx + 1, existing, has_media, media_created, gallery)
    ELSE LET is_main == IsMain(has_media, media_created, idx)
         IN  AttachMedia(urls, idx + 1, existing, TRUE, media_created + 1,
                         Append(gallery, [url |-> urls[idx], is_main |-> is_main]))

CachedNever(product_cache, key) == FALSE

\* key and key in product_cache
Cached(product_cache, key) == key # "" /\ product_cache[key] # 0

\* The Product row with this primary key is in the table.
ProductExists(s, p) == p \in 1 .. s.products

\* The statement of the create branch that raises, if one does: the
\* weight argument of Variant.objects.create is Decimal(str(weight)) with
\* no handler around it, and the insert of a Variant whose product has no
\* row breaks the foreign key.
CreateError(n, p, s) ==
    IF n.weight # "" /\ ~IsDecimal(n.weight) THEN "InvalidOperation"
    ELSE IF ~ProductExists(s, p) THEN "IntegrityError"
    ELSE None

\* _upsert_one: the Variant of the SKU is updated, or created under the
\* product of its product_key; the rows carry neither safety_stock nor
\* warehouse, so Inventory is touched exactly when qty_available is
\* given.  An exception leaves through @transaction.atomic, which undoes
\* the rows written; product_cache is the caller's dictionary and keeps
\* what was stored in it.
UpsertOne(n, product_cache, s) ==
    LET exists == Exists(s, n.sku)
        key == n.product_key
        cached == Cached(product_cache, key)
        product_created == ~exists /\ ~cached
        p == IF exists THEN s.variants[n.sku]
             ELSE IF cached THEN product_cache[key]
             ELSE s.products + 1
        s0 == [s EXCEPT !.products = IF product_created THEN @ + 1 ELSE @]
        exc == IF exists THEN None ELSE CreateError(n, p, s0)
        s1 == [s0 EXCEPT !.variant_rows = IF exists THEN @ ELSE @ + 1,
                         !.variants[n.sku] = p]
        has_qty == n.qty_available.t # "none"
        inv == GetOrCreateQty(s, n.sku)
        s2 == IF has_qty
              THEN [s1 EXCEPT !.inventory[n.sku] =
                                  NewQty(n.stock_mode, inv, n.qty_available.v)]
              ELSE s1
        urls == SelectSeq(n.media_urls, LAMBDA u : u # "")
        gallery == AttachMedia(urls, 1, ExistingUrls(s.media[n.sku]),
                               s.media[n.sku] # << >>, 0, s.media[n.sku])
        s3 == [s2 EXCEPT !.media[n.sku] = gallery]
        cache1 == IF key # "" /\ ~cached
                  THEN [product_cache EXCEPT ![key] = p]
                  ELSE product_cache
    IN  IF exc # None
        THEN [shop |-> s, product_cache |-> cache1, exc |-> exc,
              product |-> 0, product_created |-> FALSE,
              variant_created |-> FALSE, media_created |-> 0,
              inventory_action |-> ""]
        ELSE [shop |-> s3, product_cache |-> cache1, exc |-> None,
              product |-> p,
              product_created |-> product_created,
              variant_created |-> ~exists,
              media_created |-> Len(gallery) - Len(s.media[n.sku]),
              inventory_action |-> IF ~has_qty THEN ""
                                   ELSE IF n.stock_mode = "increment" THEN "increment"
                                   ELSE "set"]

Bump(res, field, c) == IF c THEN [res EXCEPT ![field] = @ + 1] ELSE res

DryRunResults(res, row) ==
    LET r1 == Bump(Bump(res, "products_created", row.action = "create"),
                   "variants_created", row.action = "create")
        r2 == Bump(Bump(r1, "products_updated", row.action = "update"),
                   "variants_updated", row.action = "update")
        has_qty == row.n.qty_available.t # "none"
        r3 == [r2 EXCEPT !.media_created =
                  @ + Len(SelectSeq(row.n.media_urls, LAMBDA u : u # ""))]
    IN  Bump(Bump(r3, "inventory_incremented",
                  has_qty /\ row.n.stock_mode = "increment"),
             "inventory_set", has_qty /\ row.n.stock_mode # "increment")

UpsertResults(res, u) ==
    LET r1 == Bump(Bump(res, "products_created", u.product_created),
                   "products_updated", ~u.product_created)
        r2 == Bump(Bump(r1, "variants_created", u.variant_created),
                   "variants_updated", ~u.variant_created)
        r3 == [r2 EXCEPT !.media_created = @ + u.media_created]
    IN  Bump(Bump(r3, "inventory_set", u.inventory_action = "set"),
             "inventory_incremented", u.inventory_action = "increment")

WritesCatalogAlways(row, dry_run) == row.action \notin {"error", "skip"}

\* The row gets past both continue statements of the loop.
WritesCatalog(row, dry_run) ==
    row.action \notin {"error", "skip"} /\ ~dry_run

\* parse_file_to_preview for the preview page of the dashboard; the
\* report of an earlier commit is gone with its request.
Preview(file, upsert, page, per_page) ==
    /\ job.pc # "rows"
    /\ preview' = ParseFileToPreview(file, upsert, page, per_page, shop)
    /\ job' = [NoJob EXCEPT !.count = job.count]
    /\ UNCHANGED <<shop, req>>
    /\ UNCHANGED exceptImport

\* The call commits for real, with upsert, the file that the commit
\* just finished committed for real, with upsert.
Repeats(file, update_existing, dry_run) ==
    /\ job.pc = "done"
    /\ ~job.dry_run
    /\ preview.upsert
    /\ preview.token = file
    /\ update_existing
    /\ ~dry_run

\* commit_import_payload up to its loop; a file without rows is done
\* at once.
CommitImportPayload(file, update_existing, dry_run) ==
    /\ job.pc # "rows"
    /\ job.count < MaxCommits
    /\ preview' = ParseFileToPreview(file, update_existing, 1, DefaultPerPage, shop)
    /\ job' = [NoJob EXCEPT !.pc = IF file = << >> THEN "done" ELSE "rows",
                            !.idx = 1, !.dry_run = dry_run,
                            !.count = job.count + 1,
                            !.again = IF Repeats(file, update_existing, dry_run)
                                      THEN [products |-> shop.products,
                                            variant_rows |-> shop.variant_rows]
                                      ELSE NoCounts]
    /\ UNCHANGED shop

\* commit_import_payload called directly
BeginCommit(file, update_existing, dry_run) ==
    /\ CommitImportPayload(file, update_existing, dry_run)
    /\ UNCHANGED req
    /\ UNCHANGED exceptImport

\* one turn of the loop over preview["rows"]
CommitRow ==
    /\ job.pc = "rows"
    /\ LET i == job.idx
           row == preview.rows[i]
           j1 == [job EXCEPT !.idx = i + 1,
                             !.pc = IF i = Len(preview.rows) THEN "done" ELSE "rows"]
       IN  IF row.action = "error"
           THEN /\ job' = [j1 EXCEPT !.results.errors =
                              Append(@, [row_index |-> i - 1, error |-> row.errors])]
                /\ shop' = shop
           ELSE IF row.action = "skip"
           THEN job' = j1 /\ shop' = shop
           ELSE IF ~WritesCatalog(row, job.dry_run)
           THEN /\ job' = [j1 EXCEPT !.results = DryRunResults(@, row)]
                /\ shop' = shop
           ELSE LET u == UpsertOne(row.n, job.product_cache, shop)
                IN  IF u.exc # None
                    THEN /\ shop' = u.shop
                         /\ job' = [j1 EXCEPT
                                      !.product_cache = u.product_cache,
                                      !.results.errors =
                                          Append(@, [row_index |-> i - 1,
                                                     error |-> <<Err(u.exc)>>])]
                    ELSE
                    /\ shop' = u.shop
                    /\ job' = [j1 EXCEPT
                                 !.product_cache = u.product_cache,
                                 !.results = UpsertResults(@, u),
                                 !.applied = @ \cup {i},
                                 !.made = @ \cup {[idx |-> i,
                                                   key |-> row.n.product_key,
                                                   sku |-> row.n.sku,
                                                   product |-> u.product,
                                                   product_created |-> u.product_created,
                                                   variant_created |-> u.variant_created]},
                                 !.last = [idx |-> i,
                                           existed |-> Exists(shop, row.n.sku),
                                           prev |-> shop.inventory[row.n.sku]]]
    /\ UNCHANGED <<preview, req>>
    /\ UNCHANGED exceptImport

InitImport ==
    /\ SyncInit
    /\ AuthAtRest
    /\ HttpAtRest
    /\ ListAtRest
    /\ ImportAtRest

NextImport ==
    \/ \E f \in Files, u \in BOOLEAN : Preview(f, u, 1, DefaultPerPage)
    \/ \E f \in Files, u \in BOOLEAN, d \in BOOLEAN : BeginCommit(f, u, d)
    \/ CommitRow

SpecImport == InitImport /\ [][NextImport]_vars

\* ------------------------------------------- the commit endpoint
\* dashboard/views_uploads.py: product_upload_commit behind
\* dashboard/authz.py: role_required.  The ImportLog row it writes is
\* not a row of the catalog and is left out.
User(is_authenticated, is_active, is_superuser, groups) ==
    [is_authenticated |-> is_authenticated, is_active |-> is_active,
     is_superuser |-> is_superuser, groups |-> groups]

Users ==
    { NoUser,
      User(TRUE, TRUE, FALSE, {"marketer"}),
      User(TRUE, TRUE, FALSE, {"editor"}),
      User(TRUE, TRUE, FALSE, {"admin"}),
      User(TRUE, TRUE, FALSE, {"Admin"}),
      User(TRUE, TRUE, FALSE, {"customer"}),
      User(TRUE, FALSE, FALSE, {"editor"}),
      User(TRUE, TRUE, TRUE, {}) }

Methods == {"GET", "POST"}

\* The token field: absent, naming a file that is gone, naming an upload.
Tokens == {"", "expired", "ok"}

\* The dry_run field: absent or any text.
DryRunFields == {"", "1", "0"}

UpsertFields == {"1", "0"}

UploadFiles ==
    { <<RawRow("X", "A", "10.00", "USD", Qty("int", 5), "set", "", << >>)>>,
      <<RawRow("X", "A", "10.00", "USD", Qty("int", 2), "increment", "", << >>)>>,
      <<RawRow("X", "B", "10.00", "eur", Qty("none", 0), "", "k", << >>)>> }

CommitRoles == {"admin", "editor", "marketer"}

LowerGroup(g) ==
    CASE g = "Admin" -> "admin"
      [] OTHER -> g

UserHasAnyRole(user, roles) ==
    IF ~(user.is_authenticated /\ user.is_active) THEN FALSE
    ELSE IF user.is_superuser THEN TRUE
    ELSE { LowerGroup(g) : g \in user.groups } \cap roles # {}

CanCommitAnyone(user) == TRUE

CanCommit(user) ==
    user.is_superuser \/ user.groups \cap {"admin", "editor"} # {}

\* The status the request is answered with before commit_import_payload
\* is reached, 0 when it gets there.
Refusal(user, method, token, post_dry_run) ==
    IF ~user.is_authenticated THEN 302
    ELSE IF ~UserHasAnyRole(user, CommitRoles) THEN 403
    ELSE IF method # "POST" THEN 405
    ELSE IF token = "" THEN 400
    ELSE IF token = "expired" THEN 302
    ELSE IF ~CanCommit(user) /\ post_dry_run = "" THEN 403
    ELSE 0

Request(user, method, token, post_dry_run, status, ran) ==
    [user |-> user, method |-> method, token |-> token,
     post_dry_run |-> post_dry_run, status |-> status,
     dry_run |-> post_dry_run # "", ran |-> ran]

\* product_upload_commit answering without an import
RefuseCommit(user, method, token, post_dry_run) ==
    /\ job.pc # "rows"
    /\ Refusal(user, method, token, post_dry_run) # 0
    /\ req' = Request(user, method, token, post_dry_run,
                      Refusal(user, method, token, post_dry_run), FALSE)
    /\ UNCHANGED <<shop, preview, job>>
    /\ UNCHANGED exceptImport

\* product_upload_commit up to the loop of commit_import_payload
ProductUploadCommit(user, file, post_dry_run, post_upsert) ==
    /\ Refusal(user, "POST", "ok", post_dry_run) = 0
    /\ CommitImportPayload(file, post_upsert = "1", post_dry_run # "")
    /\ req' = Request(user, "POST", "ok", post_dry_run, 302, TRUE)
    /\ UNCHANGED exceptImport

NextUpload ==
    \/ \E user \in Users, m \in Methods, t \in Tokens, d \in DryRunFields :
          RefuseCommit(user, m, t, d)
    \/ \E user \in Users, f \in UploadFiles, d \in DryRunFields,
          u \in UpsertFields :
          ProductUploadCommit(user, f, d, u)
    \/ CommitRow

SpecUpload == InitImport /\ [][NextUpload]_vars

\* The same operations on files whose rows carry media_urls.
NextMedia ==
    \/ \E f \in MediaFiles, u \in BOOLEAN : Preview(f, u, 1, DefaultPerPage)
    \/ \E f \in MediaFiles, u \in BOOLEAN, d \in BOOLEAN : BeginCommit(f, u, d)
    \/ CommitRow

SpecMedia == InitImport /\ [][NextMedia]_vars

\* Commits of files whose rows share a product_key.
NextGroup ==
    \/ \E f \in GroupFiles, u \in BOOLEAN, d \in BOOLEAN : BeginCommit(f, u, d)
    \/ CommitRow

SpecGroup == InitImport /\ [][NextGroup]_vars

\* Commits of large uploads.
NextBulk ==
    \/ \E n \in BulkLengths, u \in BOOLEAN, d \in BOOLEAN :
          BeginCommit(LongFile(n), u, d)
    \/ CommitRow

SpecBulk == InitImport /\ [][NextBulk]_vars

\* Previews of large uploads, page by page.
NextPage ==
    \E n \in PagedLengths, u \in BOOLEAN, pg \in PageChoices,
       per \in PerPageChoices :
        Preview(LongFile(n), u, pg, per)

SpecPage == InitImport /\ [][NextPage]_vars
\* --------------------------------------------- the claims on the importer
RowValid(n) ==
    /\ n.title # ""
    /\ n.sku # ""
    /\ IsDecimal(n.price)
    /\ n.currency \in VALID_CURRENCIES
    /\ n.qty_available.t # "text"
    /\ n.stock_mode \in {"set", "increment"}

RowClassified(row, upsert, s) ==
    /\ (row.errors = << >>) <=> RowValid(row.n)
    /\ row.errors # << >> => row.action = "error"
    /\ row.errors = << >> =>
          /\ row.action = "create" <=> ~Exists(s, row.n.sku)
          /\ row.action = "update" <=> (Exists(s, row.n.sku) /\ upsert)
          /\ row.action = "skip" <=> (Exists(s, row.n.sku) /\ ~upsert)
    /\ row.n.currency = "ZZZ" =>
          /\ row.action = "error"
          /\ \E k \in 1 .. Len(row.errors) :
                /\ row.errors[k].code = "currency"
                /\ row.errors[k].allowed = {"EUR", "GBP", "NGN", "USD"}

\* C19: every row of a preview is classified by its validity, by whether
\* a Variant with its SKU exists and by the upsert flag: 'error' when it
\* has a validation error (currency 'ZZZ' is one, reported with the
\* allowed currencies), else 'create' iff no such Variant exists,
\* 'update' iff one exists and upsert is on, 'skip' iff one exists and
\* upsert is off; a commit never upserts a row classified 'error' and
\* leaves the catalog untouched on it.
C19_PreviewClassification ==
    [][ /\ preview' # preview =>
              \A i \in 1 .. Len(preview'.rows) :
                  RowClassified(preview'.rows[i], preview'.upsert, shop)
        /\ \A i \in job'.applied \ job.applied :
              preview.rows[i].action # "error"
        /\ (job.pc = "rows" /\ preview.rows[job.idx].action = "error") =>
              shop' = shop /\ job'.applied = job.applied
      ]_vars

C19_Witness ==
    /\ job.pc = "done"
    /\ \E i, j \in 1 .. Len(preview.rows) :
          /\ preview.rows[i].n.currency = "ZZZ"
          /\ preview.rows[i].action = "error"
          /\ i \notin job.applied
          /\ preview.rows[j].action = "update"
          /\ j \in job.applied

\* C20: when a commit applies a row with stock_mode 'set' and
\* qty_available Q to a SKU that exists, the Inventory of that SKU holds
\* max(0, Q) afterwards, whatever it held before, and applying the same
\* row once more leaves the catalog as it is.
C20_InventorySet ==
    [][ (job.pc = "rows" /\ job'.applied # job.applied) =>
            LET n == preview.rows[job.idx].n
            IN  (n.stock_mode = "set" /\ n.qty_available.t = "int"
                     /\ Exists(shop, n.sku)) =>
                   /\ shop'.inventory[n.sku] = Max0(n.qty_available.v)
                   /\ UpsertOne(n, job'.product_cache, shop').shop = shop'
      ]_vars

C20_Witness ==
    /\ job.last.idx > 0
    /\ job.last.existed
    /\ job.last.prev # Null
    /\ LET n == preview.rows[job.last.idx].n
       IN  /\ n.stock_mode = "set"
           /\ n.qty_available.t = "int"
           /\ shop.inventory[n.sku] = Max0(n.qty_available.v)
           /\ job.last.prev # shop.inventory[n.sku]
\* C21: when a commit applies a row with stock_mode 'increment' and
\* qty_available Q, the Inventory of its SKU holds max(0, P + Q)
\* afterwards, P being the quantity it held before and 0 for a SKU that
\* is new or has no Inventory row yet (set 5 then increment 2 gives 7).
C21_InventoryIncrement ==
    [][ (job.pc = "rows" /\ job'.applied # job.applied) =>
            LET n == preview.rows[job.idx].n
                P == IF shop.inventory[n.sku] = Null THEN 0
                     ELSE shop.inventory[n.sku]
            IN  (n.stock_mode = "increment" /\ n.qty_available.t = "int") =>
                   /\ ~Exists(shop, n.sku) => shop.inventory[n.sku] = Null
                   /\ shop'.inventory[n.sku] = Max0(P + n.qty_available.v)
      ]_vars

C21_Witness ==
    /\ job.applied = {1, 2}
    /\ preview.rows[1].n.stock_mode = "increment"
    /\ preview.rows[1].n.qty_available = Qty("int", 2)
    /\ preview.rows[2].n.stock_mode = "increment"
    /\ preview.rows[2].n.qty_available = Qty("int", -6)
    /\ job.last.idx = 2
    /\ job.last.prev = 7
    /\ shop.inventory[preview.rows[2].n.sku] = 1
\* C22: a commit that repeats the commit before it (the same file, for
\* real, with upsert) on a file without validation errors creates no
\* Product and no Variant: the numbers of Product and Variant rows stay
\* what they were after the first commit, and every SKU of the file has
\* exactly one Variant.
C22_CommitIdempotent ==
    (job.again # NoCounts /\ preview.stats.errors = 0) =>
        /\ shop.products = job.again.products
        /\ shop.variant_rows = job.again.variant_rows
        /\ job.results.products_created = 0
        /\ job.results.variants_created = 0
        /\ shop.variant_rows = Cardinality({ x \in Skus : Exists(shop, x) })
        /\ \A i \in 1 .. Len(preview.rows) : Exists(shop, preview.rows[i].n.sku)

C22_Witness ==
    /\ job.again # NoCounts
    /\ preview.stats.errors = 0
    /\ job.pc = "done"
    /\ job.applied = {1, 2}
    /\ preview.rows[1].n.sku # preview.rows[2].n.sku
    /\ preview.rows[2].n.product_key # ""
    /\ shop.products = 2
\* C23: no Variant ever has two external-URL media items with the same
\* URL, whatever commits have run, a row that names one URL twice
\* included.
C23_NoDuplicateMedia ==
    \A x \in Skus :
        \A i, j \in 1 .. Len(shop.media[x]) :
            i # j => shop.media[x][i].url # shop.media[x][j].url
\* The outcomes a commit has tallied: a row upserted (or, in a dry run,
\* counted) is a Variant created or updated, a row in error is an entry
\* of errors, and the rows to skip are those the statistics count.
Tallied ==
    job.results.variants_created + job.results.variants_updated
        + Len(job.results.errors) + preview.stats.to_skip

\* C24: a finished commit has brought every row of the uploaded file to
\* one tallied outcome, whatever the size of the file: the tallied
\* outcomes sum to the number of rows of the file, and a real commit has
\* upserted as many rows as the file has rows to create or update.
C24_EveryRowTallied ==
    job.pc = "done" =>
        /\ Tallied = Len(preview.token)
        /\ ~job.dry_run =>
              Cardinality(job.applied)
                  = preview.stats.to_create + preview.stats.to_update
\* C25: a preview and a dry-run commit write nothing: no step of either
\* changes the Product, Variant, Inventory or Media tables.
C25_DryRunWritesNothing ==
    [][ (job'.pc = "idle" \/ job'.dry_run) => shop' = shop ]_vars

C25_Witness ==
    /\ job.pc = "done"
    /\ job.dry_run
    /\ job.results.variants_created > 0
    /\ job.results.variants_updated > 0
    /\ job.results.media_created > 0
    /\ job.results.inventory_set > 0
    /\ shop.products = 1
    /\ shop.media["B"] = << >>

Counts(res) ==
    <<res.products_created, res.products_updated, res.variants_created,
      res.variants_updated, res.media_created, res.inventory_set,
      res.inventory_incremented>>

\* The results of the loop of a real commit over rows i.. of a preview,
\* from catalog s.
RECURSIVE RealResults(_, _, _, _, _)
RealResults(rows, i, s, product_cache, res) ==
    IF i > Len(rows) THEN res
    ELSE IF rows[i].action \in {"error", "skip"}
    THEN RealResults(rows, i + 1, s, product_cache, res)
    ELSE LET u == UpsertOne(rows[i].n, product_cache, s)
         IN  RealResults(rows, i + 1, u.shop, u.product_cache,
                         IF u.exc # None THEN res ELSE UpsertResults(res, u))

\* C26: the counts a dry-run commit reports are the counts the real
\* commit of the same file reports from the same catalog: products and
\* variants created and updated, media created, inventory set and
\* incremented.
C26_DryRunSameCounts ==
    (job.pc = "done" /\ job.dry_run) =>
        Counts(job.results)
            = Counts(RealResults(preview.rows, 1, shop, NoJob.product_cache,
                                 NoResults))
Clamp(x, lo, hi) == IF x < lo THEN lo ELSE IF x > hi THEN hi ELSE x

\* The least number of pages of size per that hold total rows.
PagesFor(total, per) ==
    CHOOSE k \in 0 .. total : k * per >= total /\ (k > 0 => (k - 1) * per < total)

\* C28: a preview is the requested page of the file: the page size is
\* the requested per_page clamped to [50, 2000], total_pages is
\* max(1, ceil(total / page size)), the page is the requested page
\* clamped to [1, total_pages], the rows are the rows of that page in
\* file order, and the statistics count every row of the file.
C28_PreviewPagination ==
    preview # NoPreview =>
        LET file == preview.token
            total == Len(file)
            per == Clamp(preview.asked.per_page, 50, 2000)
            pages == IF PagesFor(total, per) < 1 THEN 1 ELSE PagesFor(total, per)
            pg == Clamp(preview.asked.page, 1, pages)
            first == (pg - 1) * per + 1
            last == IF pg * per < total THEN pg * per ELSE total
        IN  /\ preview.per_page = per
            /\ preview.total_pages = pages
            /\ preview.page = pg
            /\ Len(preview.rows) = IF last < first THEN 0 ELSE last - first + 1
            /\ \A k \in 1 .. Len(preview.rows) :
                  preview.rows[k].n = NormalizeRow(file[first + k - 1])
            /\ preview.stats.total = total
            /\ preview.stats.errors =
                  Cardinality({ i \in 1 .. total :
                                  ValidateRow(NormalizeRow(file[i])) # << >> })
            /\ preview.stats.to_create + preview.stats.to_update
                  + preview.stats.to_skip + preview.stats.errors = total

C28_Witness ==
    /\ Len(preview.token) = 1200
    /\ preview.asked = [page |-> 25, per_page |-> 500]
    /\ preview.total_pages = 3
    /\ preview.page = 3
    /\ Len(preview.rows) = 200
MarketerOnly(user) == user.groups = {"marketer"} /\ ~user.is_superuser

Privileged(user) ==
    user.is_superuser \/ "admin" \in user.groups \/ "editor" \in user.groups

\* C27: a user whose only role is marketer never causes a catalog write
\* through the commit endpoint: the request with a dry_run field is
\* accepted and runs as a dry run, the request without one is answered
\* 403 and no import runs; an import that is not a dry run runs only for
\* an admin, an editor or a superuser, and the catalog changes only
\* during such an import.
C27_MarketerDryRunOnly ==
    /\ [] /\ (req.ran /\ ~req.dry_run) => Privileged(req.user)
          /\ (MarketerOnly(req.user) /\ req.user.is_authenticated
                 /\ req.user.is_active /\ req.method = "POST"
                 /\ req.token = "ok") =>
                IF req.post_dry_run = ""
                THEN req.status = 403 /\ ~req.ran
                ELSE req.status = 302 /\ req.ran /\ job.dry_run
    /\ [][ shop' # shop =>
              req.ran /\ ~req.dry_run /\ Privileged(req.user) /\ req' = req ]_vars

C27_Witness ==
    /\ MarketerOnly(req.user)
    /\ req.method = "POST"
    /\ req.token = "ok"
    /\ req.post_dry_run = ""
    /\ req.status = 403
    /\ job.pc = "done"
    /\ job.dry_run
    /\ job.results.variants_created = 1
    /\ shop = EmptyShop
\* --------------------------------- the claims on the pages of list_products
\* More than the calls one page can take.
PageWeight == 4 * MaxRows + 4

\* The calls the generator can still make, at most.
ListRank(l) ==
    CASE l.pc = "page" -> (l.max_pages - l.pages_done) * PageWeight
      [] l.pc = "detail" ->
            (l.max_pages - l.pages_done - 1) * PageWeight + 1 + Len(l.pids)
      [] l.pc = "attempt1" ->
            (l.max_pages - l.pages_done - 1) * PageWeight + 1
                + 3 * Len(l.pids) + 2 + Len(l.chunk)
      [] l.pc = "attempt2" ->
            (l.max_pages - l.pages_done - 1) * PageWeight + 1
                + 3 * Len(l.pids) + 1 + Len(l.chunk)
      [] l.pc = "fallback" ->
            (l.max_pages - l.pages_done - 1) * PageWeight + 1
                + 3 * Len(l.pids) + Len(l.chunk) - l.idx + 1
      [] OTHER -> 0

\* C29: list_products terminates: it sends at most max_pages listing
\* requests, their page numbers are consecutive from the page it was
\* asked to start at, a listing without items ends it at once whatever
\* page budget remains, and every call it makes brings it nearer to its
\* end.
C29_ListingBounded ==
    /\ [] /\ Len(lp.asked) <= lp.max_pages
          /\ \A i \in 1 .. Len(lp.asked) :
                lp.asked[i] = lp.page_num - lp.pages_done + i - 1
          /\ lp.pc # "idle" => lp.page_num - lp.pages_done \in StartPages
          /\ lp.ended => lp.pc = "done"
          /\ ListRank(lp) >= 0
    /\ [][ /\ lp.ended => lp'.asked = lp.asked
           /\ lp.pc # "idle" => ListRank(lp') < ListRank(lp) ]_vars

C29_Witness ==
    /\ lp.ended
    /\ lp.asked = <<3, 4>>
    /\ lp.max_pages = 2
    /\ lp.pages_done = 1
    /\ Len(out) > 0

\* C30: the token check is made before every listing request: as many
\* calls of _ensure_token as listing requests were made, so a token that
\* nears its expiry during a run over several pages is renewed before
\* the next page is requested.
C30_TokenCheckedPerPage ==
    Len(lp.asked) <= lp.token_checks
\* The rows of the running commit that were upserted with product_key k.
MadeFor(k) == {m \in job.made : m.key = k}

\* C32: within one commit the Variants created from rows with the same
\* non-empty product_key are under the same Product, the Product they
\* still have, and at most one Product is created for the key.
C32_OneProductPerKey ==
    \A k \in ProductKeys :
        /\ \A a, b \in MadeFor(k) :
               (a.variant_created /\ b.variant_created) =>
                   /\ a.product = b.product
                   /\ shop.variants[a.sku] = a.product
        /\ Cardinality({m \in MadeFor(k) : m.product_created}) <= 1

\* Two rows with the key "k" created the Variants A and B; the first one
\* created their Product.
C32_Witness ==
    \E a, b \in MadeFor("k") :
        /\ a.idx = 1 /\ b.idx = 2
        /\ a.sku = "A" /\ b.sku = "B"
        /\ a.variant_created /\ b.variant_created
        /\ a.product_created /\ ~b.product_created
        /\ shop.variants["A"] = shop.variants["B"]

\* C35: every Product in the product_key cache of a commit has its row in
\* the catalog, so a row that failed and was rolled back leaves no entry
\* for later rows of its key to fail on.
C35_CacheHoldsLiveProducts ==
    \A k \in ProductKeys :
        job.product_cache[k] # 0 => ProductExists(shop, job.product_cache[k])

\* The number of main items in a gallery.
Mains(gallery) == Cardinality({i \in 1 .. Len(gallery) : gallery[i].is_main})

MainKept ==
    \A x \in Skus :
        \A i \in (DOMAIN shop'.media[x]) \ (DOMAIN shop.media[x]) :
            shop'.media[x][i].is_main => (shop.media[x] = << >> /\ i = 1)

\* C33: a Variant never has more than one main media item, and a row
\* marks an item it attaches as main only when it is the first item the
\* row attaches and the Variant had no media before the row.
C33_OneMainMedia ==
    /\ [](\A x \in Skus : Mains(shop.media[x]) <= 1)
    /\ [][MainKept]_vars

\* A gallery that got its main item from one row and another item, not
\* main, from a later one.
C33_Witness ==
    /\ Len(shop.media["A"]) >= 2
    /\ shop.media["A"][1] = [url |-> "u", is_main |-> TRUE]
    /\ shop.media["A"][2] = [url |-> "v", is_main |-> FALSE]
\* C36: a commit with upsert disabled changes nothing of a Variant that
\* exists when its row is applied, nor its Product, Inventory or Media,
\* whenever that Variant was created: before the commit or by an earlier
\* row of the same file.
C36_CreateOnlyKeepsExisting ==
    [][ (/\ job.pc = "rows"
         /\ ~preview.upsert
         /\ Exists(shop, preview.rows[job.idx].n.sku)) => shop' = shop ]_vars
\* ================================== manual import and sync, one catalog
\* commit_import_payload (catalog/importers/manual.py) writing the Product
\* and Variant tables the sync reads.  A commit is one step here: its
\* rows are applied in order between two passes of a sync run.  Inventory
\* and Media are not read by the sync and are left out.
BothRows ==
    { RawRow("A", "s8", "10.00", "USD", Qty("none", 0), "set", "", << >>),
      RawRow("A", "s9", "10.00", "USD", Qty("none", 0), "set", "", << >>),
      RawRow("B", "s1", "10.00", "USD", Qty("none", 0), "set", "k", << >>) }

BothFiles == UNION { [1 .. n -> BothRows] : n \in FileLengths }

\* _classify_action and _validate_row against the Variant table
TableRow(raw_in, upsert, tbl) ==
    LET n == NormalizeRow(raw_in)
        exists == VariantMatches(tbl, n.sku) # {}
    IN  [n |-> n,
         action |-> IF ValidateRow(n) # << >> THEN "error"
                    ELSE IF exists /\ upsert THEN "update"
                    ELSE IF exists /\ ~upsert THEN "skip"
                    ELSE "create"]

\* _upsert_one on the tables: a row whose SKU exists rewrites the title of
\* that Variant's Product; any other row creates its Variant under the
\* Product of its product_key, or under a new Product with the row's
\* title.
TableUpsertOne(n, product_cache, db) ==
    LET m == VariantMatches(db.variants, n.sku)
        key == n.product_key
        cached == Cached(product_cache, key)
        p == IF m # {} THEN db.variants[CHOOSE i \in m : TRUE].product
             ELSE IF cached THEN product_cache[key]
             ELSE Len(db.products) + 1
        products1 == IF m # {} THEN [db.products EXCEPT ![p].title = n.title]
                     ELSE IF cached THEN db.products
                     ELSE Append(db.products, [title |-> n.title])
        exc == IF m # {} THEN None
               ELSE CreateError(n, p, [products |-> Len(products1)])
        cache1 == IF key # "" /\ ~cached
                  THEN [product_cache EXCEPT ![key] = p]
                  ELSE product_cache
    IN  IF exc # None
        THEN [db |-> db, product_cache |-> cache1]
        ELSE [db |-> [products |-> products1,
                      variants |-> IF m # {} THEN db.variants
                                   ELSE Append(db.variants,
                                               [sku |-> n.sku, product |-> p])],
              product_cache |-> cache1]

\* The loop of commit_import_payload over rows classified before it.
RECURSIVE TableCommit(_, _, _, _)
TableCommit(rows, i, product_cache, db) ==
    IF i > Len(rows) THEN db
    ELSE IF rows[i].action \in {"error", "skip"}
    THEN TableCommit(rows, i + 1, product_cache, db)
    ELSE LET u == TableUpsertOne(rows[i].n, product_cache, db)
         IN  TableCommit(rows, i + 1, u.product_cache, u.db)

\* commit_import_payload(path, update_existing, dry_run=False)
ManualCommit(file, update_existing) ==
    /\ job.count < MaxCommits
    /\ LET rows == [i \in 1 .. Len(file) |->
                       TableRow(file[i], update_existing, variants)]
           db == TableCommit(rows, 1, NoJob.product_cache,
                             [products |-> products, variants |-> variants])
       IN  /\ products' = db.products
           /\ variants' = db.variants
    /\ job' = [job EXCEPT !.count = @ + 1]
    /\ UNCHANGED <<clock, ticks, cache, pc, args, counts, first_error, raised,
                   raw, yielded, logs, links, synced>>
    /\ UNCHANGED <<shop, preview, req>>
    /\ UNCHANGED <<authVars, httpVars, listVars>>

\* Non-dry sync runs of the registered provider, and commits in between.
NextBoth ==
    \/ \E r \in Runs : Start(r, "cj", FALSE, 0)
    \/ \E r \in Runs, i \in RawIds : ProcessItem(r, i)
    \/ \E r \in Runs : FinishOk(r)
    \/ \E f \in BothFiles, u \in BOOLEAN : ManualCommit(f, u)

SpecBoth == Init /\ [][NextBoth]_vars

\* C39: whatever manual imports were committed before or during a sync
\* run, the get-or-create of the Product by the title of an item finds at
\* most one Product, and an item without defect is not counted as an
\* error.
C39_TitleResolvesToOne ==
    [][\A r \in Runs :
         (ItemStep(r) /\ ~args[r].dry_run /\ Mapped(r)) =>
             /\ ProductGetOrCreate(products, TitleOf(raw'[r])).exc = None
             /\ RawItems[raw'[r]].defect = "none" => Delta(r, "errors") = 0
      ]_vars
====
